---- MODULE Spec2Model ----
(***************************************************************************)
(* A model of the claudima Telegram bot: the moderation pipeline of        *)
(* main.rs, the intake / debounce / dispatch turn of chatbot/engine.rs,    *)
(* the debouncer of chatbot/debounce.rs, the trust tools and the reminder  *)
(* loop of chatbot/engine.rs over chatbot/database.rs.                     *)
(***************************************************************************)
EXTENDS Integers, Sequences, FiniteSets, TLC

\* ------------------------------------------------------------------ bounds
MaxMsgs == 2          \* inbound Telegram updates in one behaviour
MaxFlush == 2         \* debouncer callbacks (dispatch tasks) in one behaviour
MaxCalls == 2         \* tool intents in one bridge response
MaxSent == 1          \* messages the bot sends through send_message
MaxBurst == 3         \* trigger() calls of one burst
MaxCycles == 2        \* bursts the debouncer is given, each after a quiet period
MaxReminders == 2     \* rows of the reminders table
MaxClock == 3         \* wall-clock instants the reminder loop lives through
MaxRestarts == 1      \* process restarts over the same archive
MaxTurns == 2         \* turns the memory tools are called in
MaxWrites == 2        \* writes one memory file gets
MaxSql == 3           \* tokens of one SQL statement
MaxSpam == 256        \* spam messages one user sends to the group
MaxFrames == 5        \* frames the child process writes to its stdout
MaxBridgeCalls == 2   \* calls the engine makes on the bridge
MaxEdits == 2         \* edited_message updates Telegram delivers
MaxMemberUpdates == 3 \* updates of one run of the member bookkeeping
MaxRows == 3          \* rows of the messages table get_recent_by_tokens reads
MaxTopics == 5        \* focus topics of a signals.json
DebounceTicks == 2    \* the debounce duration D, in clock ticks

\* ------------------------------------------------------- program constants
MAX_ITERATIONS == 10
ChannelCap == 16
max_strikes == 2

OwnerId == 1
StrangerId == 2
BotUserId == 9
GroupChat == -1

Users == {OwnerId, StrangerId}
Chats == {GroupChat, OwnerId, StrangerId}

VARIABLES
    \* main.rs: BotState and the Telegram side
    strikes,        \* user_id -> strike count
    deleted,        \* messages deleted by the moderation pipeline
    banned,         \* users banned by the moderation pipeline
    dmDenied,       \* users that were sent "Access denied."
    lastMsgId,      \* chat -> last message id Telegram assigned in it
    nUpdates,       \* updates delivered so far
    \* config shared with the engine
    trusted,        \* trusted_dm_users: user_id -> stored username
    configFile,     \* the trusted_dm_users list of the config file
    rollback,       \* what a trust tool undoes if the config file is not saved
    trustedAtCall,  \* the trust set when the running trust tool was called
    \* engine.rs: ChatbotEngine
    ctxMessages,    \* ContextBuffer.messages
    ctxIndex,       \* ContextBuffer.index: message_id -> position
    dbMessages,     \* Archive, messages table: message_id -> row
    dbUsers,        \* Archive, users table: user_id -> row
    pending,        \* the Pending Batch
    handlers,       \* handle_message calls in progress
    \* debounce.rs
    resetChan,      \* messages queued in reset_tx / reset_rx
    debState,       \* "idle" (outer select) or "timing" (inner select)
    timer,          \* ticks left of the running sleep(duration)
    \* dispatch tasks spawned by the debouncer callback
    tasks,          \* task id -> [pc, batch]
    claudeHolder,   \* the task holding the ClaudeCode mutex, 0 if free
    bridgeUp,       \* FALSE once the worker channel is closed
    \* locals of process_messages (of the task holding the mutex)
    response, iteration, toolIdx, results, images, sentCount,
    delivered,      \* the last sendMessage call Telegram accepted
    \* observation of the bridge and of the run
    lastCall,       \* the last bridge call: [kind, by, payload]
    callFlip,       \* flips on every bridge call
    spamSeen,       \* messages the pipeline classified as spam
    batches,        \* the batches taken by the flushes, in order
    turnEnd,        \* task id -> how its turn ended
    \* debouncer observation
    sinceTrig,      \* ticks since the last trigger(), up to DebounceTicks
    burst,          \* trigger() calls of the current burst
    calls,          \* callback invocations since the current burst began
    cycle,          \* bursts begun so far
    \* the reminders table and the reminder loop of start_debouncer
    reminders,      \* reminder id -> [trigger_at, active, repeat_cron]
    remLoop,        \* where check_reminders is: "idle", "send" or "update"
    remDue,         \* the due reminders check_reminders still has to fire
    remSent,        \* reminder id -> messages Telegram delivered for it
    clock,          \* Utc::now()
    restarts,       \* process restarts so far
    cancelled,      \* ids cancel_reminder returned true for
    \* the memories directory and the memory tools of a turn
    fsFiles,        \* the regular files under memories/: path components -> writes
    fsDirs,         \* the directories that exist; <<>> is memories/ itself
    memory_files_read,  \* process_messages: the paths read in this turn
    memTurn,        \* the turn the memory tools run in
    readTurn,       \* path -> the turn of its last successful read_memory
    memResult,      \* the last memory tool: [tool, path, err]
    \* Database::query
    queryResult,    \* the last query: [sql, err, rows]
    \* claude_code.rs: the worker thread and the child process
    worker,         \* worker_loop: [pc, err, compacted]
    child,          \* the child process: [alive, emitted, results]
    stdin,          \* what was written to the child's stdin, in order
    out_rx,         \* the frames read from the child's stdout, not yet taken,
                    \* each with the number of input frames written before it
    msg_rx,         \* the WorkerMessages sent by the engine, not yet taken
    resp_rx,        \* the Responses sent by the worker, not yet taken
    caller,         \* the engine's side of the bridge: [pc, done, err, got]
    firstSystem,    \* the tools of the system frame of the handshake
    truncSeen,      \* the inputs in whose turn the child reported a compaction
    \* ContextBuffer: the texts that edits wrote
    ctxText,        \* position in ContextBuffer.messages -> the text an edit set
    nEdits,         \* edited_message updates delivered so far
    \* debounce.rs: Drop for Debouncer
    dropped,        \* the Debouncer was dropped: cancel notified, reset_tx gone
    \* Database::get_recent_by_tokens
    recentCall,     \* the last call: [rows, max_tokens, result]
    \* signals.rs: shared/signals.json and the scan messages
    scanStore,      \* the SignalsStore on disk: mode, topics, focus_index
    scanMsg         \* the last scan message: its mode and its focus line

engineVars == <<strikes, deleted, banned, dmDenied, lastMsgId, nUpdates,
                ctxMessages, ctxIndex, dbMessages, dbUsers, pending, handlers,
                tasks, claudeHolder, bridgeUp, response, iteration, toolIdx,
                results, images, sentCount, delivered, lastCall, callFlip,
                spamSeen, batches, turnEnd>>
debVars == <<resetChan, debState, timer>>
debObs == <<sinceTrig, burst, calls, cycle>>
trustVars == <<trusted, configFile, rollback, trustedAtCall>>
remVars == <<reminders, remLoop, remDue, remSent, clock, restarts, cancelled>>
memVars == <<fsFiles, fsDirs, memory_files_read, memTurn, readTurn, memResult>>
workerVars == <<worker, child, stdin, out_rx, msg_rx, resp_rx, caller, firstSystem,
                truncSeen>>
editVars == <<ctxText, nEdits>>
auxVars == <<recentCall, scanStore, scanMsg>>
toolVars == <<memVars, queryResult, workerVars, editVars, dropped, auxVars>>
vars == <<engineVars, debVars, debObs, trustVars, remVars, toolVars>>

\* ------------------------------------------------------------------ helpers
TaskIds == 1..MaxFlush

Last(s) == s[Len(s)]

SeqToSet(s) == {s[i] : i \in 1..Len(s)}

RECURSIVE SeqsUpTo(_, _)
SeqsUpTo(S, n) ==
    IF n = 0 THEN {<<>>}
    ELSE LET shorter == SeqsUpTo(S, n - 1)
         IN  shorter \cup {Append(s, x) : s \in {q \in shorter : Len(q) = n - 1}, x \in S}

\* ------------------------------------------------- messages and the stores
Msg(chat, id, user) == [message_id |-> id, chat_id |-> chat, user_id |-> user]

\* ContextBuffer::add_message: index.insert(message_id, idx); messages.push(msg)
CtxAdd(msgs, index, m) ==
    [messages |-> Append(msgs, m),
     index |-> [k \in DOMAIN index \cup {m.message_id} |->
                   IF k = m.message_id THEN Len(msgs) + 1 ELSE index[k]]]

\* ContextBuffer::get_message: the entry the index names, if any
CtxHas(msgs, index, id) == id \in DOMAIN index /\ index[id] \in 1..Len(msgs)

\* Database::add_message, users table: insert, or on conflict count + 1
DbUpsertUser(users, m) ==
    [u \in DOMAIN users \cup {m.user_id} |->
        IF u = m.user_id
        THEN IF u \in DOMAIN users
             THEN [users[u] EXCEPT !.message_count = @ + 1]
             ELSE [message_count |-> 1, status |-> "member"]
        ELSE users[u]]

\* Database::add_message, messages table: INSERT OR REPLACE keyed by message_id
DbInsertMessage(rows, m) ==
    [k \in DOMAIN rows \cup {m.message_id} |->
        IF k = m.message_id THEN m ELSE rows[k]]

\* Database::get_recent_by_tokens(budget) is non-empty iff the table holds a
\* row: the first row is pushed whatever its length (!result.is_empty()).
RecentNonEmpty(rows) == DOMAIN rows # {}

\* ------------------------------------------------------ moderation pipeline
\* msg.text().or_else(|| msg.caption()), by what the prefilter reads of it
Texts == [hasText : {TRUE}, magic : BOOLEAN, spamPat : BOOLEAN,
          safePat : BOOLEAN, short : BOOLEAN]
NoText == [hasText |-> FALSE, magic |-> FALSE, spamPat |-> FALSE,
           safePat |-> FALSE, short |-> FALSE]
Verdicts == {"Spam", "NotSpam", "Err"}

\* prefilter.rs: prefilter
prefilter(text) ==
    IF text.magic THEN "ObviousSpam"
    ELSE IF text.spamPat THEN "ObviousSpam"
    ELSE IF text.safePat THEN "ObviousSafe"
    ELSE IF text.short THEN "ObviousSafe"
    ELSE "Ambiguous"

\* Config::is_owner
is_owner(user) == user = OwnerId

\* a DM gate that knows the owners only
can_dm_owner_only(user) == user = OwnerId

\* Config::can_dm
can_dm(user) == user = OwnerId \/ user \in DOMAIN trusted

\* an is_spam decision that takes a failed classifier call for spam
IsSpam_fail_closed(user, text, verdict) ==
    IF ~text.hasText THEN FALSE
    ELSE IF is_owner(user) THEN FALSE
    ELSE LET r == prefilter(text)
         IN  IF r = "ObviousSpam" THEN TRUE
             ELSE IF r = "ObviousSafe" THEN FALSE
             ELSE verdict # "NotSpam"

\* main.rs handle_new_message, lines 378-415: the is_spam decision
IsSpam(user, text, verdict) ==
    IF ~text.hasText THEN FALSE
    ELSE IF is_owner(user) THEN FALSE
    ELSE LET r == prefilter(text)
         IN  IF r = "ObviousSpam" THEN TRUE
             ELSE IF r = "ObviousSafe" THEN FALSE
             ELSE verdict = "Spam"

\* BotState::add_strike: *count += 1 on a u8, in a build whose arithmetic wraps
add_strike(user) == [strikes EXCEPT ![user] = (@ + 1) % 256]

\* what handle_new_message leaves alone when it hands over to the engine
IntakeFrame ==
    UNCHANGED <<ctxMessages, ctxIndex, dbMessages, dbUsers, pending, tasks,
                claudeHolder, bridgeUp, response, iteration, toolIdx, results,
                images, sentCount, delivered, lastCall, callFlip, batches,
                turnEnd, debVars, debObs, trustVars, remVars, toolVars>>

\* main.rs lines 339-351 and 445-476: the message is handed to chatbot.handle_message
HandOver(m) == handlers' = handlers \cup {[msg |-> m, pc |-> "ctx"]}

\* main.rs handle_new_message on a DM
DirectMessage(limit, user) ==
    /\ nUpdates < limit
    /\ nUpdates' = nUpdates + 1
    /\ lastMsgId' = [lastMsgId EXCEPT ![user] = @ + 1]
    /\ IF can_dm(user)
       THEN /\ HandOver(Msg(user, lastMsgId'[user], user))
            /\ UNCHANGED dmDenied
       ELSE /\ dmDenied' = dmDenied \cup {user}
            /\ UNCHANGED handlers
    /\ UNCHANGED <<strikes, deleted, banned, spamSeen>>
    /\ IntakeFrame

ArriveDM(user) == DirectMessage(MaxMsgs, user)

\* a spam message that is deleted, struck and then handed over all the same
EnforceWithoutReturn(m, user) ==
    /\ deleted' = deleted \cup {m}
    /\ strikes' = add_strike(user)
    /\ banned' = IF strikes'[user] >= max_strikes
                 THEN banned \cup {user} ELSE banned
    /\ spamSeen' = spamSeen \cup {m}
    /\ HandOver(m)

\* main.rs lines 417-443: delete the spam, add a strike, ban at
\* max_strikes, and return before the engine sees the message. In a build
\* with overflow checks add_strike panics on the 256th strike: the handler
\* ends there, after the delete.
Enforce(m, user) ==
    /\ deleted' = deleted \cup {m}
    /\ \/ /\ strikes' = add_strike(user)
          /\ banned' = IF strikes'[user] >= max_strikes
                       THEN banned \cup {user} ELSE banned
       \/ /\ strikes[user] = 255
          /\ UNCHANGED <<strikes, banned>>
    /\ spamSeen' = spamSeen \cup {m}
    /\ UNCHANGED handlers

\* main.rs handle_new_message on a group message: spam filter first, then
\* either delete / strike / ban, or chatbot.handle_message
GroupMessage(limit, user, text, verdict) ==
    /\ nUpdates < limit
    /\ nUpdates' = nUpdates + 1
    /\ lastMsgId' = [lastMsgId EXCEPT ![GroupChat] = @ + 1]
    /\ LET m == Msg(GroupChat, lastMsgId'[GroupChat], user)
       IN  IF IsSpam(user, text, verdict)
           THEN Enforce(m, user)
           ELSE /\ HandOver(m)
                /\ UNCHANGED <<deleted, strikes, banned, spamSeen>>
    /\ UNCHANGED dmDenied
    /\ IntakeFrame

ArriveGroup(user, text, verdict) == GroupMessage(MaxMsgs, user, text, verdict)

\* ------------------------------------------ ChatbotEngine::handle_message
HandlerFrame ==
    UNCHANGED <<strikes, deleted, banned, dmDenied, lastMsgId, nUpdates, tasks,
                claudeHolder, bridgeUp, response, iteration, toolIdx, results,
                images, sentCount, delivered, lastCall, callFlip, spamSeen,
                batches, turnEnd, debObs, trustVars, remVars, toolVars>>

Advance(h, pc) == (handlers \ {h}) \cup {[h EXCEPT !.pc = pc]}

\* ctx.add_message(msg.clone())
HM_Context(h) ==
    /\ h \in handlers /\ h.pc = "ctx"
    /\ LET c == CtxAdd(ctxMessages, ctxIndex, h.msg)
       IN  ctxMessages' = c.messages /\ ctxIndex' = c.index
    /\ handlers' = Advance(h, "db")
    /\ UNCHANGED <<dbMessages, dbUsers, pending, debVars>>
    /\ HandlerFrame

\* store.add_message(msg.clone())
HM_Archive(h) ==
    /\ h \in handlers /\ h.pc = "db"
    /\ dbUsers' = DbUpsertUser(dbUsers, h.msg)
    /\ dbMessages' = DbInsertMessage(dbMessages, h.msg)
    /\ handlers' = Advance(h, "pend")
    /\ UNCHANGED <<ctxMessages, ctxIndex, pending, debVars>>
    /\ HandlerFrame

\* p.push(msg)
HM_Pending(h) ==
    /\ h \in handlers /\ h.pc = "pend"
    /\ pending' = Append(pending, h.msg)
    /\ handlers' = Advance(h, "trig")
    /\ UNCHANGED <<ctxMessages, ctxIndex, dbMessages, dbUsers, debVars>>
    /\ HandlerFrame

\* handle_message on an engine whose debouncer was never started: nothing
\* is sent
trigger_without_debouncer == UNCHANGED resetChan

\* Debouncer::trigger: reset_tx.send(()).await, which waits while the
\* channel is full
trigger == ~dropped /\ resetChan < ChannelCap /\ resetChan' = resetChan + 1

\* debouncer.trigger().await, the end of handle_message
HM_Trigger(h) ==
    /\ h \in handlers /\ h.pc = "trig"
    /\ trigger
    /\ handlers' = handlers \ {h}
    /\ UNCHANGED <<ctxMessages, ctxIndex, dbMessages, dbUsers, pending,
                   debState, timer>>
    /\ HandlerFrame

\* ------------------------------------------------------------ debounce.rs
\* a receiver that is never told that the sender is gone
recv_ready_while_open(chan, closed) == chan > 0

\* reset_rx.recv() is ready with Some(()) while the channel holds a
\* message, and with None once it is empty and reset_tx was dropped
recv_ready(chan, closed) == chan > 0 \/ closed

\* outer select!, biased: cancel.notified() is polled first, then
\* reset_rx.recv() starts the debounce loop
DebStart ==
    /\ debState = "idle" /\ resetChan > 0 /\ ~dropped
    /\ resetChan' = resetChan - 1
    /\ debState' = "timing"
    /\ timer' = DebounceTicks

\* inner select!, biased: reset_rx.recv() is polled first and restarts
\* sleep(duration)
DebReset ==
    /\ debState = "timing" /\ resetChan > 0
    /\ resetChan' = resetChan - 1
    /\ timer' = DebounceTicks
    /\ UNCHANGED debState

\* a select! that takes the expired sleep whatever the channel holds
SleepWinsUnbiased == timer = 0

\* inner select!: sleep(duration) is ready only when recv() was not
SleepWins == ~recv_ready(resetChan, dropped) /\ timer = 0

\* inner select!: the timer expired, callback() runs and the loop breaks
DebExpire ==
    /\ debState = "timing" /\ SleepWins
    /\ debState' = "idle"
    /\ UNCHANGED <<resetChan, timer>>

\* outer select!: cancel.notified() is ready, the loop breaks and the task ends
DebCancelled ==
    /\ debState = "idle" /\ dropped
    /\ debState' = "exited"
    /\ UNCHANGED <<resetChan, timer>>

\* inner select!: reset_rx.recv() gave None, the task returns
DebClosed ==
    /\ debState = "timing" /\ resetChan = 0 /\ recv_ready(resetChan, dropped)
    /\ debState' = "exited"
    /\ UNCHANGED <<resetChan, timer>>

\* the passage of one clock tick for the running sleep
DebTick ==
    /\ debState = "timing" /\ timer > 0
    /\ timer' = timer - 1
    /\ UNCHANGED <<resetChan, debState>>

\* ------------------------------------------------ the reasoner's responses
\* an Option<i64> that is None
None == 0

Intent(tool, chat, user, reply) ==
    [tool |-> tool, chat_id |-> chat, user_id |-> user, reply_to_message_id |-> reply]

Done == Intent("done", 0, 0, None)
Query == Intent("query", 0, 0, None)
SendMessage(chat) == Intent("send_message", chat, 0, None)
SendReply(chat, reply) == Intent("send_message", chat, 0, reply)
SendPhoto(chat) == Intent("send_photo", chat, 0, None)
SendVoice(chat) == Intent("send_voice", chat, 0, None)
AddReaction(chat) == Intent("add_reaction", chat, 0, None)
AddTrustedUser(user) == Intent("add_trusted_user", 0, user, None)
RemoveTrustedUser(user) == Intent("remove_trusted_user", 0, user, None)

ToolCalls == {Done, Query, SendMessage(GroupChat), SendPhoto(GroupChat)}

\* claude_code.rs Response: tool_calls and the compacted flag
Responses == [calls : SeqsUpTo(ToolCalls, MaxCalls), compacted : BOOLEAN]

\* the answers of a reasoner that generates what Telegram will still take
\* and then ends the turn
BriefResponses ==
    [calls : {<<Done>>} \cup (IF sentCount < MaxSent
                              THEN {<<SendPhoto(GroupChat)>>} ELSE {}),
     compacted : BOOLEAN]

\* the outcomes of a tool: every tool succeeds, or any outcome
Succeeds == {TRUE}
Outcomes == BOOLEAN

NoResponse == [calls |-> <<>>, compacted |-> FALSE]
NoCall == [kind |-> "none", by |-> 0, payload |-> <<>>]
NoSend == [by |-> 0, chat_id |-> 0, reply_to_message_id |-> None]

\* ToolResult: is_error, content.is_some(), image.is_some()
Result(err, content, image) == [is_error |-> err, content |-> content, image |-> image]
\* a feedback for an empty response that does not flag an error
QuietFeedback == <<Result(FALSE, TRUE, FALSE)>>

\* lines 403-408: the synthetic result sent for an empty response
ErrorFeedback == <<Result(TRUE, TRUE, FALSE)>>

\* --------------------------------------------- the debouncer's callback
Spawned == {t \in TaskIds : tasks[t].pc # "none"}

TaskFrame ==
    UNCHANGED <<strikes, deleted, banned, dmDenied, nUpdates, handlers, spamSeen,
                debObs, trustVars, remVars, toolVars>>

\* engine.rs start_debouncer: the callback does tokio::spawn of a dispatch task
DebFire ==
    /\ DebExpire
    /\ \E t \in TaskIds :
          /\ t \notin Spawned
          /\ \A u \in TaskIds : u < t => u \in Spawned
          /\ tasks' = [tasks EXCEPT ![t].pc = "take"]
    /\ UNCHANGED <<lastMsgId, ctxMessages, ctxIndex, dbMessages, dbUsers, pending,
                   claudeHolder, bridgeUp, response, iteration, toolIdx, results,
                   images, sentCount, delivered, lastCall, callFlip, batches,
                   turnEnd>>
    /\ TaskFrame

DebRecv ==
    /\ DebStart \/ DebReset
    /\ UNCHANGED <<engineVars, debObs, trustVars, remVars, toolVars>>

Tick ==
    /\ DebTick
    /\ UNCHANGED <<engineVars, debObs, trustVars, remVars, toolVars>>

\* a flush that clones the Pending Batch and leaves it in place
TakeLeavesAll(p) == p

\* std::mem::take(&mut *p): what the flush leaves in the Pending Batch
TakeLeaves(p) == <<>>

\* the spawned task: take the pending messages; an empty batch returns
T_Take(t) ==
    /\ tasks[t].pc = "take"
    /\ pending' = TakeLeaves(pending)
    /\ batches' = Append(batches, pending)
    /\ IF pending = <<>>
       THEN /\ tasks' = [tasks EXCEPT ![t].pc = "done"]
            /\ turnEnd' = [turnEnd EXCEPT ![t] = "noop"]
       ELSE /\ tasks' = [tasks EXCEPT ![t] = [pc |-> "lock", batch |-> pending]]
            /\ UNCHANGED turnEnd
    /\ UNCHANGED <<lastMsgId, ctxMessages, ctxIndex, dbMessages, dbUsers,
                   claudeHolder, bridgeUp, response, iteration, toolIdx, results,
                   images, sentCount, delivered, lastCall, callFlip, debVars>>
    /\ TaskFrame

\* ------------------------------------------------------ process_messages
\* a lock that is granted whoever holds the guard
LockAlwaysFree(t) == TRUE

\* claude.lock().await is granted only while no other turn holds the guard
LockFree(t) == claudeHolder = 0

TurnFrame ==
    /\ UNCHANGED <<pending, batches, debVars>>
    /\ TaskFrame

StoresFrame ==
    UNCHANGED <<lastMsgId, ctxMessages, ctxIndex, dbMessages, dbUsers, sentCount,
                delivered>>

\* process_messages line 329: let mut claude = claude.lock().await
T_Lock(t) ==
    /\ tasks[t].pc = "lock"
    /\ LockFree(t)
    /\ claudeHolder' = t
    /\ tasks' = [tasks EXCEPT ![t].pc = "send"]
    /\ UNCHANGED <<bridgeUp, response, iteration, toolIdx, results, images,
                   lastCall, callFlip, turnEnd>>
    /\ StoresFrame /\ TurnFrame

\* the function returns: the guard is dropped
Return(t, how) ==
    /\ tasks' = [tasks EXCEPT ![t].pc = "done"]
    /\ turnEnd' = [turnEnd EXCEPT ![t] = how]
    /\ claudeHolder' = 0

\* a bridge call that fails: the ? operator returns the error
BridgeFails(t) ==
    /\ ~bridgeUp
    /\ Return(t, "bridge_err")
    /\ UNCHANGED <<bridgeUp, response, iteration, toolIdx, results, images,
                   lastCall, callFlip>>

\* a bridge call that the worker answers with response r
BridgeAnswers(t, kind, payload, r) ==
    /\ bridgeUp
    /\ response' = r
    /\ lastCall' = [kind |-> kind, by |-> t, payload |-> payload]
    /\ callFlip' = ~callFlip
    /\ UNCHANGED <<bridgeUp, claudeHolder, turnEnd>>

\* where the turn goes once an iteration's bridge calls are over: the
\* compaction check of lines 471-488, or the next iteration
AfterCalls(r) == IF r.compacted THEN "restore" ELSE "loop"

\* lines 332-339: send the batch (with its first image, if any)
T_SendBatch(t, R) ==
    /\ tasks[t].pc = "send"
    /\ \/ /\ BridgeFails(t)
       \/ \E r \in R :
             /\ BridgeAnswers(t, "batch", tasks[t].batch, r)
             /\ tasks' = [tasks EXCEPT ![t].pc =
                             IF r.compacted THEN "restore0" ELSE "loop"]
             /\ iteration' = 0
             /\ toolIdx' = 0 /\ results' = <<>> /\ images' = 0
    /\ StoresFrame /\ TurnFrame

\* data_dir.join("memories/README.md"), as its one path component
ReadmeFile == <<<<"README.md">>>>

\* lines 346-351: std::fs::read_to_string(&readme_path).ok() is Some
ReadmeReadable == ReadmeFile \in DOMAIN fsFiles

Section(name) == [section |-> name]

\* an in-loop restoration that loads README.md as the first one does
restore_payload_with_readme(readme, recent) ==
    (IF readme THEN <<Section("readme")>> ELSE <<>>) \o
    (IF recent THEN <<Section("recent")>> ELSE <<>>)

\* lines 358-375: the sections of the first restoration payload, README.md
\* before the recent messages
restore0_payload(readme, recent) ==
    (IF readme THEN <<Section("readme")>> ELSE <<>>) \o
    (IF recent THEN <<Section("recent")>> ELSE <<>>)

\* lines 479-483: the payload of a restoration inside the loop lists the
\* recent messages and nothing else
restore_payload(readme, recent) ==
    IF recent THEN <<Section("recent")>> ELSE <<>>

\* lines 342-381: the compaction check on the first response; the payload
\* is longer than 30 characters as soon as it has a section
T_Restore0(t, R) ==
    /\ tasks[t].pc = "restore0"
    /\ IF restore0_payload(ReadmeReadable, RecentNonEmpty(dbMessages)) # <<>>
       THEN \/ BridgeFails(t)
            \/ \E r \in R :
                  /\ BridgeAnswers(t, "restore",
                                   restore0_payload(ReadmeReadable,
                                                    RecentNonEmpty(dbMessages)), r)
                  /\ tasks' = [tasks EXCEPT ![t].pc = "loop"]
                  /\ UNCHANGED <<iteration, toolIdx, results, images>>
       ELSE /\ tasks' = [tasks EXCEPT ![t].pc = "loop"]
            /\ UNCHANGED <<bridgeUp, claudeHolder, turnEnd, response, iteration,
                           toolIdx, results, images, lastCall, callFlip>>
    /\ StoresFrame /\ TurnFrame

\* a loop that runs one iteration more
CapReachedLate(i) == i > MAX_ITERATIONS

\* line 398: for iteration in 0..MAX_ITERATIONS is over
CapReached(i) == i >= MAX_ITERATIONS

\* lines 398-414: the head of an iteration. The cap ends the turn; an empty
\* response is answered with the synthetic error result and `continue`
T_Loop(t, R) ==
    /\ tasks[t].pc = "loop"
    /\ IF CapReached(iteration)
       THEN /\ Return(t, "cap")
            /\ UNCHANGED <<bridgeUp, response, iteration, toolIdx, results,
                           images, lastCall, callFlip>>
       ELSE IF response.calls = <<>>
       THEN \/ BridgeFails(t)
            \/ \E r \in R :
                  /\ BridgeAnswers(t, "tool_results", ErrorFeedback, r)
                  /\ iteration' = iteration + 1
                  /\ UNCHANGED <<tasks, toolIdx, results, images>>
       ELSE /\ tasks' = [tasks EXCEPT ![t].pc = "exec"]
            /\ toolIdx' = 1
            /\ results' = <<>>
            /\ UNCHANGED <<bridgeUp, claudeHolder, turnEnd, response, iteration,
                           images, lastCall, callFlip>>
    /\ StoresFrame /\ TurnFrame

\* an execute_tool whose send_photo is an action tool like the other sends
execute_tool_photo_silent(call, ok) ==
    IF call.tool = "done" THEN Result(FALSE, FALSE, FALSE)
    ELSE IF ~ok THEN Result(TRUE, TRUE, FALSE)
    ELSE IF call.tool \in {"send_message", "add_reaction", "send_voice", "send_photo"}
    THEN Result(FALSE, FALSE, FALSE)
    ELSE Result(FALSE, TRUE, FALSE)

\* engine.rs execute_tool: the ToolResult of one intent, by its outcome.
\* send_message, add_reaction and send_voice return Ok(None); send_photo
\* returns its content and the image; the other tools return content
execute_tool(call, ok) ==
    IF call.tool = "done" THEN Result(FALSE, FALSE, FALSE)
    ELSE IF ~ok THEN Result(TRUE, TRUE, FALSE)
    ELSE IF call.tool \in {"send_message", "add_reaction", "send_voice"}
    THEN Result(FALSE, FALSE, FALSE)
    ELSE IF call.tool = "send_photo" THEN Result(FALSE, TRUE, TRUE)
    ELSE Result(FALSE, TRUE, FALSE)

\* the outcomes an intent can have: done cannot fail, a send
\* succeeds only while Telegram accepts it
CanEndAs(call, ok) ==
    IF call.tool = "done" THEN ok
    ELSE IF call.tool \in {"send_message", "send_photo", "send_voice"}
    THEN ok => sentCount < MaxSent
    ELSE TRUE

\* process_messages line 388: messages.last().map(|m| (m.message_id, m.chat_id))
default_reply_to(batch) ==
    IF batch = <<>> THEN [message_id |-> None, chat_id |-> 0]
    ELSE [message_id |-> Last(batch).message_id, chat_id |-> Last(batch).chat_id]

\* execute_tool lines 524-530: the intent's reply id, or else the default
\* one if the batch's last message is of the chat the intent names
reply_to(call, batch) ==
    IF call.reply_to_message_id # None THEN call.reply_to_message_id
    ELSE LET d == default_reply_to(batch)
         IN  IF d.message_id # None /\ d.chat_id = call.chat_id
             THEN d.message_id ELSE None

\* a validation that keeps a reply target only if the Context Buffer has
\* an entry for it, of this chat
validated_reply_known_only(chat, reply) ==
    IF reply = None THEN None
    ELSE IF CtxHas(ctxMessages, ctxIndex, reply)
    THEN IF ctxMessages[ctxIndex[reply]].chat_id = chat THEN reply ELSE None
    ELSE None

\* execute_send_message lines 690-705: the reply target is dropped if the
\* Context Buffer's entry for that message id is of another chat, and kept
\* if it is of this chat or if the buffer has no entry
validated_reply(chat, reply) ==
    IF reply = None THEN None
    ELSE IF CtxHas(ctxMessages, ctxIndex, reply)
    THEN IF ctxMessages[ctxIndex[reply]].chat_id = chat THEN reply ELSE None
    ELSE reply

\* a send_message that stores the bot's message the way handle_message
\* stores an inbound one: Context Buffer, Archive, Pending Batch, trigger
RecordBotMessage_through_intake(chat) ==
    LET m == Msg(chat, lastMsgId[chat] + 1, BotUserId)
        c == CtxAdd(ctxMessages, ctxIndex, m)
    IN  /\ lastMsgId' = [lastMsgId EXCEPT ![chat] = @ + 1]
        /\ ctxMessages' = c.messages
        /\ ctxIndex' = c.index
        /\ dbUsers' = DbUpsertUser(dbUsers, m)
        /\ dbMessages' = DbInsertMessage(dbMessages, m)
        /\ sentCount' = sentCount + 1
        /\ pending' = Append(pending, m)
        /\ resetChan' = resetChan + 1

\* execute_send_message lines 707-743: Telegram assigns the id, the bot's
\* message is stored in the Context Buffer and in the Archive, and in
\* nothing else: no pending.push, no debouncer.trigger
RecordBotMessage(chat) ==
    LET m == Msg(chat, lastMsgId[chat] + 1, BotUserId)
        c == CtxAdd(ctxMessages, ctxIndex, m)
    IN  /\ lastMsgId' = [lastMsgId EXCEPT ![chat] = @ + 1]
        /\ ctxMessages' = c.messages
        /\ ctxIndex' = c.index
        /\ dbUsers' = DbUpsertUser(dbUsers, m)
        /\ dbMessages' = DbInsertMessage(dbMessages, m)
        /\ sentCount' = sentCount + 1
        /\ UNCHANGED <<pending, resetChan>>

\* a for loop that is left at the first failed tool
after_tool_break_on_error(resp, idx, result) ==
    IF result.is_error \/ idx = Len(resp.calls) THEN "decide" ELSE "exec"

\* lines 419-440: `for tc in &response.tool_calls` goes on to the next
\* intent whatever the result was, and ends after the last one
after_tool(resp, idx, result) ==
    IF idx = Len(resp.calls) THEN "decide" ELSE "exec"

\* lines 419-440: execute the next intent of the response
T_Exec(t, Oks) ==
    /\ tasks[t].pc = "exec"
    /\ LET call == response.calls[toolIdx]
       IN  \E ok \in Oks :
              /\ CanEndAs(call, ok)
              /\ results' = Append(results, execute_tool(call, ok))
              /\ IF ok /\ call.tool = "send_message"
                 THEN /\ RecordBotMessage(call.chat_id)
                      /\ delivered' =
                            [by |-> t, chat_id |-> call.chat_id,
                             reply_to_message_id |->
                                validated_reply(call.chat_id,
                                                reply_to(call, tasks[t].batch))]
                 ELSE IF ok /\ call.tool \in {"send_photo", "send_voice"}
                 THEN /\ lastMsgId' = [lastMsgId EXCEPT ![call.chat_id] = @ + 1]
                      /\ sentCount' = sentCount + 1
                      /\ UNCHANGED <<ctxMessages, ctxIndex, dbMessages, dbUsers,
                                     delivered, pending, resetChan>>
                 ELSE StoresFrame /\ UNCHANGED <<pending, resetChan>>
    /\ toolIdx' = toolIdx + 1
    /\ tasks' = [tasks EXCEPT ![t].pc = after_tool(response, toolIdx, Last(results'))]
    /\ UNCHANGED <<bridgeUp, claudeHolder, turnEnd, response, iteration, images,
                   lastCall, callFlip, batches, debState, timer>>
    /\ TaskFrame

\* an exit test that does not look at the results' content
CleanExitIgnoringContent(resp, res) ==
    /\ \E i \in 1..Len(resp.calls) : resp.calls[i].tool = "done"
    /\ ~ \E i \in 1..Len(res) : res[i].is_error
    /\ ~ \E i \in 1..Len(res) : res[i].image

\* lines 417, 443-448: done was called, no error, no content, no image
CleanExit(resp, res) ==
    /\ \E i \in 1..Len(resp.calls) : resp.calls[i].tool = "done"
    /\ ~ \E i \in 1..Len(res) : res[i].is_error
    /\ ~ \E i \in 1..Len(res) : res[i].content
    /\ ~ \E i \in 1..Len(res) : res[i].image

\* lines 454-456: the images of the results
ImageCount(res) == Cardinality({i \in 1..Len(res) : res[i].image})

\* lines 442-459: leave the turn, or send the results as one tool_results turn
T_Decide(t, R) ==
    /\ tasks[t].pc = "decide"
    /\ IF CleanExit(response, results)
       THEN /\ Return(t, "clean")
            /\ UNCHANGED <<bridgeUp, response, iteration, toolIdx, results,
                           images, lastCall, callFlip>>
       ELSE \/ BridgeFails(t)
            \/ \E r \in R :
                  /\ BridgeAnswers(t, "tool_results", results, r)
                  /\ images' = ImageCount(results)
                  /\ tasks' = [tasks EXCEPT ![t].pc =
                                  IF images' > 0 THEN "images" ELSE AfterCalls(r)]
                  /\ iteration' = IF images' = 0 /\ AfterCalls(r) = "loop"
                                  THEN iteration + 1 ELSE iteration
                  /\ UNCHANGED <<toolIdx, results>>
    /\ StoresFrame /\ TurnFrame

\* lines 461-469: one follow-up turn per generated image
T_Image(t, R) ==
    /\ tasks[t].pc = "images"
    /\ \/ BridgeFails(t)
       \/ \E r \in R :
             /\ BridgeAnswers(t, "image", <<>>, r)
             /\ images' = images - 1
             /\ tasks' = [tasks EXCEPT ![t].pc =
                             IF images' > 0 THEN "images" ELSE AfterCalls(r)]
             /\ iteration' = IF images' = 0 /\ AfterCalls(r) = "loop"
                             THEN iteration + 1 ELSE iteration
             /\ UNCHANGED <<toolIdx, results>>
    /\ StoresFrame /\ TurnFrame

\* lines 471-488: the last response of the iteration was compacted
T_Restore(t, R) ==
    /\ tasks[t].pc = "restore"
    /\ IF RecentNonEmpty(dbMessages)
       THEN \/ BridgeFails(t)
            \/ \E r \in R :
                  /\ BridgeAnswers(t, "restore",
                                   restore_payload(ReadmeReadable,
                                                   RecentNonEmpty(dbMessages)), r)
                  /\ tasks' = [tasks EXCEPT ![t].pc = "loop"]
                  /\ iteration' = iteration + 1
                  /\ UNCHANGED <<toolIdx, results, images>>
       ELSE /\ tasks' = [tasks EXCEPT ![t].pc = "loop"]
            /\ iteration' = iteration + 1
            /\ UNCHANGED <<bridgeUp, claudeHolder, turnEnd, response, toolIdx,
                           results, images, lastCall, callFlip>>
    /\ StoresFrame /\ TurnFrame

\* the worker thread ends (child died): every later call returns Err
WorkerDies ==
    /\ bridgeUp
    /\ bridgeUp' = FALSE
    /\ UNCHANGED <<strikes, deleted, banned, dmDenied, lastMsgId, nUpdates,
                   ctxMessages, ctxIndex, dbMessages, dbUsers, pending, handlers,
                   tasks, claudeHolder, response, iteration, toolIdx, results,
                   images, sentCount, delivered, lastCall, callFlip, spamSeen,
                   batches, turnEnd, debVars, debObs, trustVars, remVars, toolVars>>

\* ------------------------------------------------------- the memory tools
\* a relative path as the reasoner gives it, character by character
MemPaths ==
    {<<"a">>, <<".", "/", "a">>, <<"d", "/", "a">>,
     <<>>, <<".", ".">>, <<".", ".", "/", "a">>, <<"a", ".", ".", "a">>,
     <<"d", "/", ".", ".">>, <<"/", "a">>, <<"\\", "a">>}

\* the path of list_memories / search_memories that is None
NoPath == <<"None">>

\* relative_path.contains("..")
contains_dotdot(path) ==
    \E i \in 1..(Len(path) - 1) : path[i] = "." /\ path[i + 1] = "."

\* relative_path.starts_with('/') || relative_path.starts_with('\\')
starts_with_separator(path) == Len(path) > 0 /\ path[1] \in {"/", "\\"}

\* a check that knows the forward slash only
PathErrorNoBackslash(path) ==
    IF contains_dotdot(path) THEN "dotdot"
    ELSE IF Len(path) > 0 /\ path[1] = "/" THEN "absolute"
    ELSE IF path = <<>> THEN "empty"
    ELSE "none"

\* resolve_memory_path lines 1028-1037: the three rejections, in order
PathError(path) ==
    IF contains_dotdot(path) THEN "dotdot"
    ELSE IF starts_with_separator(path) THEN "absolute"
    ELSE IF path = <<>> THEN "empty"
    ELSE "none"

\* memories_dir.join(relative_path), as its components under memories/:
\* the path is cut at every '/', empty and "." components fall away
Flush(cur, acc) == IF cur = <<>> \/ cur = <<".">> THEN acc ELSE Append(acc, cur)

RECURSIVE SplitPath(_, _, _, _)
SplitPath(path, i, cur, acc) ==
    IF i > Len(path) THEN Flush(cur, acc)
    ELSE IF path[i] = "/" THEN SplitPath(path, i + 1, <<>>, Flush(cur, acc))
    ELSE SplitPath(path, i + 1, Append(cur, path[i]), acc)

Components(path) == SplitPath(path, 1, <<>>, <<>>)

Prefixes(c) == {SubSeq(c, 1, k) : k \in 0..Len(c)}

Parent(c) == SubSeq(c, 1, Len(c) - 1)

\* resolve_memory_path: the error if any, the full path, and the
\* directories that exist once it returned (create_dir_all of the parent)
resolve_memory_path(path) ==
    LET full == Components(path)
    IN  IF PathError(path) # "none"
        THEN [err |-> PathError(path), full |-> <<>>, dirs |-> fsDirs]
        ELSE IF Parent(full) \in fsDirs
        THEN [err |-> "none", full |-> full, dirs |-> fsDirs]
        ELSE IF \E q \in Prefixes(Parent(full)) : q \in DOMAIN fsFiles
        THEN [err |-> "create_dir", full |-> <<>>, dirs |-> fsDirs]
        ELSE [err |-> "none", full |-> full,
              dirs |-> fsDirs \cup Prefixes(Parent(full))]

exists(full) == full \in DOMAIN fsFiles \/ full \in fsDirs

\* what a memory tool leaves alone
MemoryFrame ==
    UNCHANGED <<engineVars, debVars, debObs, trustVars, remVars, queryResult,
                workerVars, editVars, dropped, auxVars>>

\* the tool returned: Err(err) or Ok
MemReturns(tool, path, err) ==
    memResult' = [tool |-> tool, path |-> path, err |-> err]

\* std::fs::write(&full_path, ..)
WriteFile(full) ==
    fsFiles' = [f \in DOMAIN fsFiles \cup {full} |->
                   IF f = full
                   THEN IF full \in DOMAIN fsFiles THEN fsFiles[full] + 1 ELSE 1
                   ELSE fsFiles[f]]

\* execute_create_memory
execute_create_memory(path) ==
    /\ LET r == resolve_memory_path(path)
       IN  /\ fsDirs' = r.dirs
           /\ IF r.err # "none"
              THEN MemReturns("create", path, r.err) /\ UNCHANGED fsFiles
              ELSE IF exists(r.full)
              THEN MemReturns("create", path, "exists") /\ UNCHANGED fsFiles
              ELSE MemReturns("create", path, "none") /\ WriteFile(r.full)
    /\ UNCHANGED <<memory_files_read, memTurn, readTurn>>
    /\ MemoryFrame

\* execute_read_memory: a successful read records the path as it was given
execute_read_memory(path) ==
    /\ LET r == resolve_memory_path(path)
       IN  /\ fsDirs' = r.dirs
           /\ IF r.err # "none"
              THEN /\ MemReturns("read", path, r.err)
                   /\ UNCHANGED <<memory_files_read, readTurn>>
              ELSE IF ~exists(r.full)
              THEN /\ MemReturns("read", path, "not_found")
                   /\ UNCHANGED <<memory_files_read, readTurn>>
              ELSE IF r.full \in fsDirs
              THEN /\ MemReturns("read", path, "read_failed")
                   /\ UNCHANGED <<memory_files_read, readTurn>>
              ELSE /\ MemReturns("read", path, "none")
                   /\ memory_files_read' = memory_files_read \cup {path}
                   /\ readTurn' = [readTurn EXCEPT ![path] = memTurn]
    /\ UNCHANGED <<fsFiles, memTurn>>
    /\ MemoryFrame

\* execute_edit_memory; occurs is content.matches(old_string).count()
execute_edit_memory(path, occurs) ==
    /\ \A f \in DOMAIN fsFiles : fsFiles[f] < MaxWrites
    /\ IF path \notin memory_files_read
       THEN /\ MemReturns("edit", path, "must_read")
            /\ UNCHANGED <<fsFiles, fsDirs>>
       ELSE LET r == resolve_memory_path(path)
            IN  /\ fsDirs' = r.dirs
                /\ IF r.err # "none"
                   THEN MemReturns("edit", path, r.err) /\ UNCHANGED fsFiles
                   ELSE IF ~exists(r.full)
                   THEN MemReturns("edit", path, "not_found") /\ UNCHANGED fsFiles
                   ELSE IF r.full \in fsDirs
                   THEN MemReturns("edit", path, "read_failed") /\ UNCHANGED fsFiles
                   ELSE IF occurs = 0
                   THEN MemReturns("edit", path, "no_match") /\ UNCHANGED fsFiles
                   ELSE IF occurs > 1
                   THEN MemReturns("edit", path, "not_unique") /\ UNCHANGED fsFiles
                   ELSE MemReturns("edit", path, "none") /\ WriteFile(r.full)
    /\ UNCHANGED <<memory_files_read, memTurn, readTurn>>
    /\ MemoryFrame

\* execute_list_memories: without a path memories/ is created if missing
execute_list_memories(path) ==
    /\ IF path = NoPath
       THEN /\ fsDirs' = fsDirs \cup {<<>>}
            /\ MemReturns("list", path, "none")
       ELSE LET r == resolve_memory_path(path)
            IN  /\ fsDirs' = r.dirs
                /\ IF r.err # "none" THEN MemReturns("list", path, r.err)
                   ELSE IF r.full \notin r.dirs
                   THEN MemReturns("list", path, "not_a_directory")
                   ELSE MemReturns("list", path, "none")
    /\ UNCHANGED <<fsFiles, memory_files_read, memTurn, readTurn>>
    /\ MemoryFrame

\* execute_search_memories
execute_search_memories(path) ==
    /\ IF path = NoPath
       THEN /\ UNCHANGED fsDirs
            /\ MemReturns("search", path, "none")
       ELSE LET r == resolve_memory_path(path)
            IN  /\ fsDirs' = r.dirs
                /\ MemReturns("search", path, r.err)
    /\ UNCHANGED <<fsFiles, memory_files_read, memTurn, readTurn>>
    /\ MemoryFrame

\* execute_delete_memory: files only
execute_delete_memory(path) ==
    /\ LET r == resolve_memory_path(path)
       IN  /\ fsDirs' = r.dirs
           /\ IF r.err # "none"
              THEN MemReturns("delete", path, r.err) /\ UNCHANGED fsFiles
              ELSE IF ~exists(r.full)
              THEN MemReturns("delete", path, "not_found") /\ UNCHANGED fsFiles
              ELSE IF r.full \in fsDirs
              THEN MemReturns("delete", path, "is_directory") /\ UNCHANGED fsFiles
              ELSE /\ MemReturns("delete", path, "none")
                   /\ fsFiles' = [f \in DOMAIN fsFiles \ {r.full} |-> fsFiles[f]]
    /\ UNCHANGED <<memory_files_read, memTurn, readTurn>>
    /\ MemoryFrame

\* a files-read set that lives on from one turn to the next
KeepFilesRead(read) == read

\* process_messages line 384: HashSet::new()
NewFilesRead(read) == {}

\* the turn is over and the next call of process_messages begins
M_NextTurn ==
    /\ memTurn < MaxTurns
    /\ memTurn' = memTurn + 1
    /\ memory_files_read' = NewFilesRead(memory_files_read)
    /\ UNCHANGED <<fsFiles, fsDirs, readTurn, memResult>>
    /\ MemoryFrame

NextMemory ==
    \/ \E path \in MemPaths : execute_create_memory(path)
    \/ \E path \in MemPaths : execute_read_memory(path)
    \/ \E path \in MemPaths, occurs \in 0..2 : execute_edit_memory(path, occurs)
    \/ \E path \in MemPaths \cup {NoPath} : execute_list_memories(path)
    \/ \E path \in MemPaths \cup {NoPath} : execute_search_memories(path)
    \/ \E path \in MemPaths : execute_delete_memory(path)
    \/ M_NextTurn

\* ------------------------------------------------------- the query tool
\* an SQL statement, token by token: white space, keywords in either case,
\* a column whose name holds a keyword, a separator
SqlTokens == {" ", "SELECT", "select", "x", ";", "insert", "DROP", "updated_at"}

Statements == SeqsUpTo(SqlTokens, MaxSql)

\* str::to_uppercase, token by token
Upper(token) ==
    CASE token = "select" -> "SELECT"
      [] token = "insert" -> "INSERT"
      [] token = "updated_at" -> "UPDATED_AT"
      [] OTHER -> token

\* an upper-casing that leaves the statement as it is
keep_case(sql) == sql

to_uppercase(sql) == [i \in DOMAIN sql |-> Upper(sql[i])]

\* str::trim: leading and trailing white space falls away
RECURSIVE trim_start(_)
trim_start(sql) ==
    IF sql # <<>> /\ Head(sql) = " " THEN trim_start(Tail(sql)) ELSE sql

RECURSIVE trim_end(_)
trim_end(sql) ==
    IF sql # <<>> /\ Last(sql) = " "
    THEN trim_end(SubSeq(sql, 1, Len(sql) - 1)) ELSE sql

trim(sql) == trim_end(trim_start(sql))

\* the patterns of lines 322: a token of the upper-cased statement contains
\* one of them
ForbiddenIn(token) ==
    CASE token = "INSERT" -> {"INSERT"}
      [] token = "DROP" -> {"DROP"}
      [] token = "UPDATED_AT" -> {"UPDATE"}
      [] OTHER -> {}

\* Database::query: the error it returns, "none" if rows are read; prepares
\* says whether SQLite compiles the statement
query(sql, prepares) ==
    LET sql_upper == to_uppercase(trim(sql))
    IN  IF sql_upper = <<>> \/ Head(sql_upper) # "SELECT" THEN "not_select"
        ELSE IF \E i \in DOMAIN sql_upper : ForbiddenIn(sql_upper[i]) # {}
        THEN "forbidden"
        ELSE IF ~prepares THEN "query_error"
        ELSE "none"

\* execute_query, as the tool of a query intent
execute_query(t, sql, prepares) ==
    /\ tasks[t].pc = "exec"
    /\ response.calls[toolIdx].tool = "query"
    /\ LET err == query(sql, prepares)
       IN  /\ queryResult' = [sql |-> sql, err |-> err, rows |-> err = "none"]
           /\ results' = Append(results, Result(err # "none", TRUE, FALSE))
    /\ toolIdx' = toolIdx + 1
    /\ tasks' = [tasks EXCEPT ![t].pc = after_tool(response, toolIdx, Last(results'))]
    /\ UNCHANGED <<strikes, deleted, banned, dmDenied, lastMsgId, nUpdates,
                   ctxMessages, ctxIndex, dbMessages, dbUsers, pending, handlers,
                   claudeHolder, bridgeUp, response, iteration, images, sentCount,
                   delivered, lastCall, callFlip, spamSeen, batches, turnEnd,
                   debVars, debObs, trustVars, remVars, memVars, workerVars,
                   editVars, dropped, auxVars>>

\* ------------------------------------------- claude_code.rs: the worker
\* the tools arrays a system frame can carry
ToolLists == {{}, {"StructuredOutput"}, {"Bash"}, {"StructuredOutput", "Bash"}}

\* OutputMessage: the frames the stdout reader thread passes on
Frames ==
    [type : {"system"}, tools : ToolLists, truncated : {FALSE}]
        \cup [type : {"assistant"}, tools : {{}}, truncated : BOOLEAN]
        \cup [type : {"result"}, tools : {{}}, truncated : {FALSE}]

\* WorkerMessage::UserMessage (a batch or a restoration payload) and
\* WorkerMessage::ToolResults
WorkerMessages == {"batch", "restore", "tool_results"}

\* the seed input frame: the system prompt or "Session resumed. ..."
first_message == "seed"

\* a handshake that takes any tools array
non_schema_unchecked(tools) == {}

\* line 378: tools.iter().filter(|t| *t != "StructuredOutput")
non_schema(tools) == {tool \in tools : tool # "StructuredOutput"}

\* a flag that lives as long as the worker
flag_kept(compacted) == compacted

\* wait_for_result line 488: let mut compacted = false
flag_reset(compacted) == FALSE

WorkerFrame ==
    UNCHANGED <<engineVars, debVars, debObs, trustVars, remVars, memVars, queryResult,
                editVars, dropped, auxVars>>

\* the worker returns Err(err): stdin, msg_rx and resp_tx are dropped
WorkerErr(err) ==
    /\ worker' = [worker EXCEPT !.pc = "dead", !.err = err]
    /\ msg_rx' = <<>>

\* out_rx.blocking_recv() returns None: the reader thread is gone and
\* nothing is queued
OutputClosed == out_rx = <<>> /\ ~child.alive

\* lines 363-371: the first message is written to the child's stdin
worker_seed ==
    /\ worker.pc = "seed"
    /\ IF child.alive
       THEN /\ stdin' = Append(stdin, first_message)
            /\ worker' = [worker EXCEPT !.pc = "system"]
            /\ UNCHANGED msg_rx
       ELSE /\ WorkerErr("Write")
            /\ UNCHANGED stdin
    /\ UNCHANGED <<child, out_rx, resp_rx, caller, firstSystem, truncSeen>>
    /\ WorkerFrame

\* lines 373-394: wait for the system frame and check its tools
worker_system ==
    /\ worker.pc = "system"
    /\ \/ /\ out_rx # <<>>
          /\ out_rx' = Tail(out_rx)
          /\ LET frame == Head(out_rx)
             IN  IF frame.type = "system"
                 THEN /\ firstSystem' = [seen |-> TRUE, tools |-> frame.tools]
                      /\ IF non_schema(frame.tools) # {}
                         THEN WorkerErr("Security violation")
                         ELSE /\ worker' = [worker EXCEPT !.pc = "result",
                                      !.compacted = flag_reset(@)]
                              /\ UNCHANGED msg_rx
                 ELSE UNCHANGED <<worker, msg_rx, firstSystem>>
       \/ /\ OutputClosed
          /\ WorkerErr("Output channel closed")
          /\ UNCHANGED <<out_rx, firstSystem>>
    /\ UNCHANGED <<child, stdin, resp_rx, caller, truncSeen>>
    /\ WorkerFrame

\* a wait that takes whatever frame comes next as the end of the turn
ends_turn_any(frame) == TRUE

\* wait_for_result lines 503-526: only OutputMessage::Result returns
ends_turn(frame) == frame.type = "result"

\* lines 487-533, called at lines 397 and 415: frames are skipped up to the
\* result frame; in the main loop the Response then goes to resp_tx
wait_for_result ==
    /\ worker.pc \in {"result", "reply"}
    /\ \/ /\ out_rx # <<>>
          /\ out_rx' = Tail(out_rx)
          /\ LET frame == Head(out_rx)
             IN  IF ends_turn(frame)
                 THEN /\ worker' = [worker EXCEPT !.pc = "recv"]
                      /\ resp_rx' =
                            IF worker.pc = "reply"
                            THEN Append(resp_rx, [input |-> Len(stdin),
                                                  compacted |-> worker.compacted])
                            ELSE resp_rx
                 ELSE /\ worker' = [worker EXCEPT !.compacted =
                                       @ \/ (frame.type = "assistant" /\ frame.truncated)]
                      /\ UNCHANGED resp_rx
          /\ UNCHANGED msg_rx
       \/ /\ OutputClosed
          /\ WorkerErr("Output channel closed")
          /\ UNCHANGED <<out_rx, resp_rx>>
    /\ UNCHANGED <<child, stdin, caller, firstSystem, truncSeen>>
    /\ WorkerFrame

\* lines 408-414: the main loop takes a WorkerMessage and writes it to stdin
worker_recv ==
    /\ worker.pc = "recv"
    /\ msg_rx # <<>>
    /\ IF child.alive
       THEN /\ stdin' = Append(stdin, Head(msg_rx))
            /\ worker' = [worker EXCEPT !.pc = "reply", !.compacted = flag_reset(@)]
            /\ msg_rx' = Tail(msg_rx)
       ELSE /\ WorkerErr("Write")
            /\ UNCHANGED stdin
    /\ UNCHANGED <<child, out_rx, resp_rx, caller, firstSystem, truncSeen>>
    /\ WorkerFrame

\* ClaudeCode::send_message / send_tool_results, lines 107-111 and 121-124:
\* self.tx.send(..) fails once the worker has dropped msg_rx
ClaudeCode_send(message) ==
    /\ caller.pc = "idle"
    /\ caller.done < MaxBridgeCalls
    /\ IF worker.pc = "dead"
       THEN /\ caller' = [caller EXCEPT !.done = @ + 1,
                                        !.err = "Worker channel closed"]
            /\ UNCHANGED msg_rx
       ELSE /\ caller' = [caller EXCEPT !.pc = "recv"]
            /\ msg_rx' = Append(msg_rx, message)
    /\ UNCHANGED <<worker, child, stdin, out_rx, resp_rx, firstSystem, truncSeen>>
    /\ WorkerFrame

\* lines 113-116 and 126-129: self.rx.recv() gives the Response, or None
\* once the worker has dropped resp_tx and nothing is queued
ClaudeCode_recv ==
    /\ caller.pc = "recv"
    /\ \/ /\ resp_rx # <<>>
          /\ resp_rx' = Tail(resp_rx)
          /\ caller' = [pc |-> "idle", done |-> caller.done + 1, err |-> "none",
                        got |-> Append(caller.got, Head(resp_rx))]
       \/ /\ resp_rx = <<>> /\ worker.pc = "dead"
          /\ caller' = [caller EXCEPT !.pc = "idle", !.done = @ + 1,
                                      !.err = "Response channel closed"]
          /\ UNCHANGED resp_rx
    /\ UNCHANGED <<worker, child, stdin, out_rx, msg_rx, firstSystem, truncSeen>>
    /\ WorkerFrame

\* the child writes a frame to its stdout; lines 337-359 queue it in out_tx
ChildEmits(frame) ==
    /\ child.alive
    /\ child.emitted < MaxFrames
    /\ child' = [child EXCEPT !.emitted = @ + 1,
                              !.results = IF frame.type = "result" THEN @ + 1 ELSE @]
    /\ out_rx' = Append(out_rx, [type |-> frame.type, tools |-> frame.tools,
                                 truncated |-> frame.truncated,
                                 after |-> Len(stdin)])
    /\ truncSeen' = IF frame.type = "assistant" /\ frame.truncated
                    THEN truncSeen \cup {Len(stdin)} ELSE truncSeen
    /\ UNCHANGED <<worker, stdin, msg_rx, resp_rx, caller, firstSystem>>
    /\ WorkerFrame

\* the child of the wire protocol: it writes frames only for an input frame
\* it was given, and ends each turn with one result frame
ChildAnswers(frame) ==
    /\ child.results < Len(stdin)
    /\ ChildEmits(frame)

\* the child exits: its stdout reaches end of file, writes to its stdin fail
ChildExits ==
    /\ child.alive
    /\ child' = [child EXCEPT !.alive = FALSE]
    /\ UNCHANGED <<worker, stdin, out_rx, msg_rx, resp_rx, caller, firstSystem,
                   truncSeen>>
    /\ WorkerFrame

\* ClaudeCode::start: the channels are created and the worker is spawned
InitWorker ==
    /\ worker = [pc |-> "seed", err |-> "none", compacted |-> FALSE]
    /\ child = [alive |-> TRUE, emitted |-> 0, results |-> 0]
    /\ stdin = <<>> /\ out_rx = <<>> /\ msg_rx = <<>> /\ resp_rx = <<>>
    /\ caller = [pc |-> "idle", done |-> 0, err |-> "none", got |-> <<>>]
    /\ firstSystem = [seen |-> FALSE, tools |-> {}]
    /\ truncSeen = {}

NextWorker ==
    \/ worker_seed
    \/ worker_system
    \/ wait_for_result
    \/ worker_recv
    \/ \E message \in WorkerMessages : ClaudeCode_send(message)
    \/ ClaudeCode_recv
    \/ \E frame \in Frames : ChildEmits(frame)
    \/ ChildExits

\* the bridge with a child that keeps to the wire protocol
NextDialogue ==
    \/ worker_seed
    \/ worker_system
    \/ wait_for_result
    \/ worker_recv
    \/ \E message \in WorkerMessages : ClaudeCode_send(message)
    \/ ClaudeCode_recv
    \/ \E frame \in Frames : ChildAnswers(frame)
    \/ ChildExits

\* ------------------------------------------- the users table of the Archive
MemberStatuses == {"member", "left", "banned"}

\* Database::member_joined: insert, or on conflict set status = 'member'
member_joined(users, user) ==
    [u \in DOMAIN users \cup {user} |->
        IF u = user
        THEN IF u \in DOMAIN users
             THEN [users[u] EXCEPT !.status = "member"]
             ELSE [message_count |-> 0, status |-> "member"]
        ELSE users[u]]

\* Database::member_left: UPDATE users SET status = 'left' WHERE user_id
member_left(users, user) ==
    [u \in DOMAIN users |->
        IF u = user THEN [users[u] EXCEPT !.status = "left"] ELSE users[u]]

\* Database::member_banned: UPDATE users SET status = 'banned' WHERE user_id
member_banned(users, user) ==
    [u \in DOMAIN users |->
        IF u = user THEN [users[u] EXCEPT !.status = "banned"] ELSE users[u]]

\* main.rs handle_chat_member: Telegram reports that the user's status in
\* the group went from old to new
handle_chat_member(limit, user, old, new) ==
    /\ nUpdates < limit
    /\ nUpdates' = nUpdates + 1
    /\ old # new
    /\ dbUsers' =
          IF new = "member"
          THEN IF old \in {"left", "banned"} THEN member_joined(dbUsers, user)
               ELSE dbUsers
          ELSE IF new = "left" THEN member_left(dbUsers, user)
          ELSE member_banned(dbUsers, user)
    /\ UNCHANGED <<strikes, deleted, banned, dmDenied, lastMsgId, ctxMessages,
                   ctxIndex, dbMessages, pending, handlers, tasks, claudeHolder,
                   bridgeUp, response, iteration, toolIdx, results, images,
                   sentCount, delivered, lastCall, callFlip, spamSeen, batches,
                   turnEnd, debVars, debObs, trustVars, remVars, toolVars>>

\* ----------------------------------------------- ChatbotEngine::handle_edit
\* the texts an edited message can have
EditTexts == {"a", "b"}

\* an edit that signals the debouncer as a new message does
trigger_after_edit(chan) == chan + 1

\* handle_edit lines 241-245: "edits don't trigger Claude", the reset
\* channel is left as it is
no_trigger(chan) == chan

\* ContextBuffer::edit_message: messages[idx].text = new_text for the idx
\* the index holds for message_id, if it holds one inside the list
edit_message(texts, msgs, index, message_id, new_text) ==
    IF CtxHas(msgs, index, message_id)
    THEN [i \in DOMAIN texts \cup {index[message_id]} |->
             IF i = index[message_id] THEN new_text ELSE texts[i]]
    ELSE texts

\* main.rs handle_edited_message and ChatbotEngine::handle_edit: the edit of
\* a group message is given to the engine by its message_id
handle_edit(message_id, new_text) ==
    /\ nEdits < MaxEdits
    /\ nEdits' = nEdits + 1
    /\ ctxText' = edit_message(ctxText, ctxMessages, ctxIndex, message_id, new_text)
    /\ resetChan' = no_trigger(resetChan)
    /\ UNCHANGED <<engineVars, debState, timer, debObs, trustVars, remVars, memVars,
                   queryResult, workerVars, dropped, auxVars>>

\* ------------------------------------------ Database::get_recent_by_tokens
\* msg.format().len() of a row: 52 characters of markup around ids of one
\* digit, an empty name, time and text, and longer ones
RowLens == {52, 60, 100}

\* the token budgets of a call
Budgets == {0, 13, 28, 53}

NoRecent == [rows |-> <<>>, max_tokens |-> 0, result |-> <<>>]

\* a loop that stops at the budget even before the first row
over_budget_strict(total, msg_chars, chars_budget, result) ==
    total + msg_chars > chars_budget

\* line 298: total_chars + msg_chars > chars_budget && !result.is_empty()
over_budget(total, msg_chars, chars_budget, result) ==
    total + msg_chars > chars_budget /\ result # <<>>

Reverse(s) == [i \in 1..Len(s) |-> s[Len(s) + 1 - i]]

\* lines 296-303: the rows from the newest down, each pushed unless the
\* loop breaks; rows is in ascending (timestamp, message_id) order and i is
\* the place of the row the statement yields next
RECURSIVE Collect(_, _, _, _, _)
Collect(rows, i, total, chars_budget, result) ==
    IF i = 0 THEN result
    ELSE IF over_budget(total, rows[i], chars_budget, result) THEN result
    ELSE Collect(rows, i - 1, total + rows[i], chars_budget, Append(result, i))

\* Database::get_recent_by_tokens: the places of the rows returned, after
\* result.reverse()
get_recent_by_tokens(rows, max_tokens) ==
    Reverse(Collect(rows, Len(rows), 0, max_tokens * 4, <<>>))

\* a call of get_recent_by_tokens on a table whose rows have these lengths
GetRecent(rows, max_tokens) ==
    /\ recentCall' = [rows |-> rows, max_tokens |-> max_tokens,
                      result |-> get_recent_by_tokens(rows, max_tokens)]
    /\ UNCHANGED <<engineVars, debVars, debObs, trustVars, remVars, memVars,
                   queryResult, workerVars, editVars, dropped, scanStore, scanMsg>>

\* ------------------------------------------------------------- signals.rs
ScanModes == {"Discover", "DeepDive", "Validate", "Plan", "FollowUp"}
NoMode == "None"
NoTopic == -1

\* ScanMode::next
ScanMode_next(mode) ==
    CASE mode = "Discover" -> "DeepDive"
      [] mode = "DeepDive" -> "Validate"
      [] mode = "Validate" -> "Plan"
      [] mode = "Plan" -> "FollowUp"
      [] mode = "FollowUp" -> "Discover"

\* SignalsStore::load when there is no readable signals.json: Discover, the
\* five initial focus topics, focus_index 0. focus_topics is the length of
\* the list; a topic is its place in it, from 0.
DefaultStore == [current_mode |-> "Discover", focus_topics |-> 5, focus_index |-> 0]

\* the stores a signals.json can hold: any mode or none, a list of topics,
\* an index inside the list
Stores ==
    {st \in [current_mode : ScanModes \cup {NoMode},
             focus_topics : 0..MaxTopics, focus_index : 0..MaxTopics] :
        IF st.focus_topics = 0 THEN st.focus_index = 0
        ELSE st.focus_index < st.focus_topics}

NoScan == [mode |-> NoMode, focus |-> NoTopic, saved |-> TRUE]

\* SignalsStore::get_and_advance_mode
get_and_advance_mode(st) ==
    LET mode == IF st.current_mode = NoMode THEN "Discover" ELSE st.current_mode
    IN  [mode |-> mode, store |-> [st EXCEPT !.current_mode = ScanMode_next(mode)]]

\* SignalsStore::get_and_advance_focus
get_and_advance_focus(st) ==
    IF st.focus_topics = 0 THEN [topic |-> NoTopic, store |-> st]
    ELSE [topic |-> st.focus_index,
          store |-> [st EXCEPT !.focus_index = (@ + 1) % st.focus_topics]]

\* a focus line in every mode
focus_line_in_every_mode(mode, focus) == focus

\* lines 332-335: the focus line is there in Discover mode only
focus_line(mode, focus) == IF mode = "Discover" THEN focus ELSE NoTopic

\* generate_scan_message: load, advance mode and focus, save (a failed save
\* is logged and leaves the file as it was), format the message
generate_scan_message(saved) ==
    LET m == get_and_advance_mode(scanStore)
        f == get_and_advance_focus(m.store)
    IN  /\ scanStore' = IF saved THEN f.store ELSE scanStore
        /\ scanMsg' = [mode |-> m.mode, focus |-> focus_line(m.mode, f.topic),
                       saved |-> saved]
        /\ UNCHANGED <<engineVars, debVars, debObs, trustVars, remVars, memVars,
                       queryResult, workerVars, editVars, dropped, recentCall>>

\* ------------------------------------------------------------ the engine
InitEngine ==
    /\ strikes = [u \in Users |-> 0]
    /\ deleted = {} /\ banned = {} /\ dmDenied = {}
    /\ lastMsgId = [c \in Chats |-> 0]
    /\ nUpdates = 0
    /\ ctxMessages = <<>> /\ ctxIndex = <<>>
    /\ dbMessages = <<>> /\ dbUsers = <<>>
    /\ pending = <<>> /\ handlers = {}
    /\ tasks = [t \in TaskIds |-> [pc |-> "none", batch |-> <<>>]]
    /\ claudeHolder = 0 /\ bridgeUp = TRUE
    /\ response = NoResponse /\ iteration = 0 /\ toolIdx = 0
    /\ results = <<>> /\ images = 0 /\ sentCount = 0
    /\ delivered = NoSend
    /\ lastCall = NoCall /\ callFlip = FALSE
    /\ spamSeen = {} /\ batches = <<>>
    /\ turnEnd = [t \in TaskIds |-> "none"]

InitDebouncer == resetChan = 0 /\ debState = "idle" /\ timer = 0
InitDebObs == sinceTrig = 0 /\ burst = 0 /\ calls = 0 /\ cycle = 0
NoRollback == [op |-> "none", user_id |-> 0, username |-> "none"]

InitTrust ==
    /\ trusted = <<>> /\ configFile = {} /\ rollback = NoRollback
    /\ trustedAtCall = <<>>
InitReminders ==
    /\ reminders = <<>> /\ remLoop = "idle" /\ remDue = <<>> /\ remSent = <<>>
    /\ clock = 0 /\ restarts = 0 /\ cancelled = {}

\* no memory tool ran yet: memories/ does not exist
NoMemResult == [tool |-> "none", path |-> <<>>, err |-> "none"]

InitMemory ==
    /\ fsFiles = <<>> /\ fsDirs = {}
    /\ memory_files_read = {} /\ memTurn = 1
    /\ readTurn = [path \in MemPaths |-> 0]
    /\ memResult = NoMemResult

\* no query ran yet
NoQuery == [sql |-> <<>>, err |-> "none", rows |-> FALSE]

InitTools ==
    /\ InitMemory /\ queryResult = NoQuery /\ InitWorker
    /\ ctxText = <<>> /\ nEdits = 0
    /\ dropped = FALSE
    /\ recentCall = NoRecent
    /\ scanStore = DefaultStore /\ scanMsg = NoScan

Init ==
    /\ InitEngine /\ InitDebouncer /\ InitDebObs /\ InitTrust /\ InitReminders
    /\ InitTools

Next ==
    \/ \E u \in Users : ArriveDM(u)
    \/ \E u \in Users, text \in Texts \cup {NoText}, v \in Verdicts : ArriveGroup(u, text, v)
    \/ \E h \in handlers : HM_Context(h)
    \/ \E h \in handlers : HM_Archive(h)
    \/ \E h \in handlers : HM_Pending(h)
    \/ \E h \in handlers : HM_Trigger(h)
    \/ DebRecv
    \/ Tick
    \/ DebFire
    \/ \E t \in TaskIds : T_Take(t)
    \/ \E t \in TaskIds : T_Lock(t)
    \/ \E t \in TaskIds : T_SendBatch(t, BriefResponses)
    \/ \E t \in TaskIds : T_Restore0(t, BriefResponses)
    \/ \E t \in TaskIds : T_Loop(t, BriefResponses)
    \/ \E t \in TaskIds : T_Exec(t, Succeeds)
    \/ \E t \in TaskIds : T_Decide(t, BriefResponses)
    \/ \E t \in TaskIds : T_Image(t, BriefResponses)
    \/ \E t \in TaskIds : T_Restore(t, BriefResponses)
    \/ WorkerDies

Spec == Init /\ [][Next]_vars

\* ------------------------------------------------- one turn, any reasoner
\* The state in which a dispatch task is about to lock the bridge: a group
\* message of a stranger went through handle_message and was flushed.
FirstMsg == Msg(GroupChat, 1, StrangerId)

InitTurn ==
    /\ strikes = [u \in Users |-> 0]
    /\ deleted = {} /\ banned = {} /\ dmDenied = {}
    /\ lastMsgId = [c \in Chats |-> IF c = GroupChat THEN 1 ELSE 0]
    /\ nUpdates = 1
    /\ ctxMessages = <<FirstMsg>> /\ ctxIndex = (1 :> 1)
    /\ dbMessages = (1 :> FirstMsg)
    /\ dbUsers = (StrangerId :> [message_count |-> 1, status |-> "member"])
    /\ pending = <<>> /\ handlers = {}
    /\ tasks = [t \in TaskIds |-> IF t = 1 THEN [pc |-> "lock", batch |-> <<FirstMsg>>]
                                           ELSE [pc |-> "none", batch |-> <<>>]]
    /\ claudeHolder = 0 /\ bridgeUp = TRUE
    /\ response = NoResponse /\ iteration = 0 /\ toolIdx = 0
    /\ results = <<>> /\ images = 0 /\ sentCount = 0
    /\ delivered = NoSend
    /\ lastCall = NoCall /\ callFlip = FALSE
    /\ spamSeen = {} /\ batches = <<<<FirstMsg>>>>
    /\ turnEnd = [t \in TaskIds |-> "none"]
    /\ InitDebouncer /\ InitDebObs /\ InitTrust /\ InitReminders /\ InitTools

NextTurn ==
    \/ \E t \in TaskIds : T_Lock(t)
    \/ \E t \in TaskIds : T_SendBatch(t, Responses)
    \/ \E t \in TaskIds : T_Restore0(t, Responses)
    \/ \E t \in TaskIds : T_Loop(t, Responses)
    \/ \E t \in TaskIds : T_Exec(t, Outcomes)
    \/ \E t \in TaskIds : T_Decide(t, Responses)
    \/ \E t \in TaskIds : T_Image(t, Responses)
    \/ \E t \in TaskIds : T_Restore(t, Responses)
    \/ WorkerDies

SpecTurn == InitTurn /\ [][NextTurn]_vars

\* ------------------------------------------- one turn of chat actions
ActionCalls ==
    {Done, SendMessage(GroupChat), AddReaction(GroupChat), SendVoice(GroupChat),
     SendPhoto(GroupChat)}

\* the answers of a reasoner that only acts on the chat
ActionResponses == [calls : SeqsUpTo(ActionCalls, MaxCalls), compacted : {FALSE}]

NextActions ==
    \/ \E t \in TaskIds : T_Lock(t)
    \/ \E t \in TaskIds : T_SendBatch(t, ActionResponses)
    \/ \E t \in TaskIds : T_Loop(t, ActionResponses)
    \/ \E t \in TaskIds : T_Exec(t, Outcomes)
    \/ \E t \in TaskIds : T_Decide(t, ActionResponses)
    \/ \E t \in TaskIds : T_Image(t, ActionResponses)
    \/ WorkerDies

SpecActions == InitTurn /\ [][NextActions]_vars

\* ------------------------------------- one turn, a terse reasoner, fairness
\* the answers of a reasoner that gives at most one intent at a time
TerseResponses ==
    [calls : {<<>>, <<Done>>, <<Query>>, <<SendPhoto(GroupChat)>>},
     compacted : BOOLEAN]

\* the steps of dispatch task t
TurnOf(t) ==
    \/ T_Lock(t)
    \/ T_SendBatch(t, TerseResponses)
    \/ T_Restore0(t, TerseResponses)
    \/ T_Loop(t, TerseResponses)
    \/ T_Exec(t, Outcomes)
    \/ T_Decide(t, TerseResponses)
    \/ T_Image(t, TerseResponses)
    \/ T_Restore(t, TerseResponses)

NextTurnTerse ==
    \/ \E t \in TaskIds : TurnOf(t)
    \/ WorkerDies

\* the dispatch task is scheduled, and the bridge answers or fails each call
SpecTurnFair ==
    InitTurn /\ [][NextTurnTerse]_vars /\ \A t \in TaskIds : WF_vars(TurnOf(t))

\* ------------------------------------- the whole system, a replying reasoner
\* the answers of a reasoner that sends one message, to the group or to the
\* owner's DM, with or without a reply target of its own, or ends the turn
ReplyResponses ==
    [calls : {<<Done>>} \cup
             (IF sentCount < MaxSent
              THEN {<<SendMessage(GroupChat)>>, <<SendMessage(OwnerId)>>,
                    <<SendReply(GroupChat, 1)>>}
              ELSE {}),
     compacted : {FALSE}]

NextReply ==
    \/ \E u \in Users : ArriveDM(u)
    \/ \E u \in Users : ArriveGroup(u, NoText, "NotSpam")
    \/ \E h \in handlers : HM_Context(h)
    \/ \E h \in handlers : HM_Archive(h)
    \/ \E h \in handlers : HM_Pending(h)
    \/ \E h \in handlers : HM_Trigger(h)
    \/ DebRecv
    \/ Tick
    \/ DebFire
    \/ \E t \in TaskIds : T_Take(t)
    \/ \E t \in TaskIds : T_Lock(t)
    \/ \E t \in TaskIds : T_SendBatch(t, ReplyResponses)
    \/ \E t \in TaskIds : T_Loop(t, ReplyResponses)
    \/ \E t \in TaskIds : T_Exec(t, Succeeds)
    \/ \E t \in TaskIds : T_Decide(t, ReplyResponses)

SpecReply == Init /\ [][NextReply]_vars

\* the answers of a reasoner that sends one message with a reply id of its
\* own choice, or ends the turn
ReplyToResponses ==
    [calls : {<<Done>>} \cup
             (IF sentCount < MaxSent
              THEN {<<SendReply(c, r)>> : c \in {GroupChat, OwnerId}, r \in 1..MaxMsgs}
              ELSE {}),
     compacted : {FALSE}]

NextReplyTo ==
    \/ \E u \in Users : ArriveDM(u)
    \/ \E u \in Users : ArriveGroup(u, NoText, "NotSpam")
    \/ \E h \in handlers : HM_Context(h)
    \/ \E h \in handlers : HM_Archive(h)
    \/ \E h \in handlers : HM_Pending(h)
    \/ \E h \in handlers : HM_Trigger(h)
    \/ DebRecv
    \/ Tick
    \/ DebFire
    \/ \E t \in TaskIds : T_Take(t)
    \/ \E t \in TaskIds : T_Lock(t)
    \/ \E t \in TaskIds : T_SendBatch(t, ReplyToResponses)
    \/ \E t \in TaskIds : T_Loop(t, ReplyToResponses)
    \/ \E t \in TaskIds : T_Exec(t, Succeeds)
    \/ \E t \in TaskIds : T_Decide(t, ReplyToResponses)

SpecReplyTo == Init /\ [][NextReplyTo]_vars

\* -------------------------------------------- the debouncer against time
DebounceFrame == UNCHANGED <<engineVars, trustVars, remVars, toolVars>>

\* a caller of trigger() opens a burst: the first one, or one that comes
\* when the callback of the burst before has run
D_FirstTrigger ==
    /\ cycle < MaxCycles
    /\ burst = 0 \/ calls = 1
    /\ trigger
    /\ cycle' = cycle + 1
    /\ burst' = 1 /\ calls' = 0
    /\ sinceTrig' = 0
    /\ UNCHANGED <<debState, timer>>
    /\ DebounceFrame

\* a caller of trigger() that follows the previous call by less than the
\* debounce duration
D_Trigger ==
    /\ burst >= 1 /\ burst < MaxBurst
    /\ sinceTrig < DebounceTicks
    /\ trigger
    /\ burst' = burst + 1
    /\ sinceTrig' = 0
    /\ UNCHANGED <<debState, timer, calls, cycle>>
    /\ DebounceFrame

\* the debouncer task receives from reset_rx
D_Recv ==
    /\ DebStart \/ DebReset
    /\ UNCHANGED debObs
    /\ DebounceFrame

\* the sleep won the select!: callback() is invoked
D_Callback ==
    /\ DebExpire
    /\ calls' = calls + 1
    /\ UNCHANGED <<sinceTrig, burst, cycle>>
    /\ DebounceFrame

\* one tick of time: the running sleep and the quiet period both advance
D_Elapse ==
    /\ sinceTrig < DebounceTicks \/ (debState = "timing" /\ timer > 0)
    /\ IF debState = "timing" /\ timer > 0
       THEN DebTick
       ELSE UNCHANGED debVars
    /\ sinceTrig' = IF sinceTrig < DebounceTicks THEN sinceTrig + 1 ELSE sinceTrig
    /\ UNCHANGED <<burst, calls, cycle>>
    /\ DebounceFrame

\* Drop for Debouncer: cancel.notify_one(), then the fields are dropped and
\* with them reset_tx, the only sender of the channel
D_Drop ==
    /\ ~dropped
    /\ dropped' = TRUE
    /\ UNCHANGED <<engineVars, debVars, debObs, trustVars, remVars, memVars,
                   queryResult, workerVars, editVars, auxVars>>

\* the debouncer task sees the cancellation or the closed channel and ends
D_Exit ==
    /\ DebCancelled \/ DebClosed
    /\ UNCHANGED debObs
    /\ DebounceFrame

NextDebounce == D_FirstTrigger \/ D_Trigger \/ D_Recv \/ D_Callback \/ D_Elapse

\* the debouncer task is scheduled and time passes
SpecDebounce ==
    /\ Init /\ [][NextDebounce]_vars
    /\ WF_vars(D_Recv) /\ WF_vars(D_Callback) /\ WF_vars(D_Elapse)

NextDrop ==
    D_FirstTrigger \/ D_Trigger \/ D_Recv \/ D_Callback \/ D_Elapse \/ D_Drop \/ D_Exit

\* the debouncer is dropped at some time; its task is scheduled
SpecDrop ==
    /\ Init /\ [][NextDrop]_vars
    /\ WF_vars(D_Recv) /\ WF_vars(D_Callback) /\ WF_vars(D_Elapse) /\ WF_vars(D_Exit)

\* ------------------------------------------------------- the trust tools
NoUser == 0

\* process_messages lines 391-395: the last message of the batch that is
\* not a system message gives the requesting user and chat
Requester(batch) ==
    LET idx == {i \in DOMAIN batch : batch[i].user_id # 0}
    IN  IF idx = {}
        THEN [known |-> FALSE, user_id |-> 0, chat_id |-> 0]
        ELSE LET i == CHOOSE k \in idx : \A j \in idx : j <= k
             IN  [known |-> TRUE, user_id |-> batch[i].user_id,
                  chat_id |-> batch[i].chat_id]

\* an authorization that does not look at the chat
check_owner_authorization(req) == req.known /\ req.user_id = OwnerId

\* check_owner_dm_authorization: Ok(()) iff the requester is known, is the
\* owner, and the chat is the owner's DM
check_owner_dm_authorization(req) ==
    /\ req.known
    /\ req.user_id = OwnerId
    /\ req.chat_id = OwnerId

TrustFrame ==
    UNCHANGED <<strikes, deleted, banned, dmDenied, lastMsgId, nUpdates,
                ctxMessages, ctxIndex, dbMessages, dbUsers, pending, handlers,
                claudeHolder, bridgeUp, response, iteration, images, sentCount,
                delivered, lastCall, callFlip, spamSeen, batches, turnEnd,
                debVars, debObs, remVars, toolVars>>

\* the tool returned: its result is pushed and the loop goes to the next
\* intent of the response
ToolReturns(t, res) ==
    /\ results' = Append(results, res)
    /\ toolIdx' = toolIdx + 1
    /\ tasks' = [tasks EXCEPT ![t].pc =
                    IF toolIdx = Len(response.calls) THEN "decide" ELSE "exec"]

\* the tool waits for save_trusted_users_to_config
ToolSaves(t, op, user, name) ==
    /\ rollback' = [op |-> op, user_id |-> user, username |-> name]
    /\ trustedAtCall' = trusted
    /\ tasks' = [tasks EXCEPT ![t].pc = "save"]
    /\ UNCHANGED <<results, toolIdx, configFile>>

\* execute_add_trusted_user up to the save; name is what Telegram gives as
\* the user's username
execute_add_trusted_user(t, name) ==
    /\ tasks[t].pc = "exec"
    /\ response.calls[toolIdx].tool = "add_trusted_user"
    /\ LET user == response.calls[toolIdx].user_id
           denied == \/ ~check_owner_dm_authorization(Requester(tasks[t].batch))
                     \/ user = NoUser
                     \/ user = OwnerId
                     \/ user \in DOMAIN trusted
       IN  IF denied
           THEN /\ ToolReturns(t, Result(TRUE, TRUE, FALSE))
                /\ UNCHANGED trustVars
           ELSE /\ trusted' = [u \in DOMAIN trusted \cup {user} |->
                                  IF u = user THEN name ELSE trusted[u]]
                /\ ToolSaves(t, "add", user, name)
    /\ TrustFrame

\* execute_remove_trusted_user up to the save
execute_remove_trusted_user(t) ==
    /\ tasks[t].pc = "exec"
    /\ response.calls[toolIdx].tool = "remove_trusted_user"
    /\ LET user == response.calls[toolIdx].user_id
           denied == \/ ~check_owner_dm_authorization(Requester(tasks[t].batch))
                     \/ user = NoUser
                     \/ user \notin DOMAIN trusted
       IN  IF denied
           THEN /\ ToolReturns(t, Result(TRUE, TRUE, FALSE))
                /\ UNCHANGED trustVars
           ELSE /\ trusted' = [u \in DOMAIN trusted \ {user} |-> trusted[u]]
                /\ ToolSaves(t, "remove", user, trusted[user])
    /\ TrustFrame

\* a failed save that leaves the trust set as the tool changed it
not_rolled_back(users, undo) == users

\* lines 1495-1497 and 1569-1571: users.remove(&resolved_id) after a failed
\* add, users.insert(resolved_id, old_username) after a failed removal
rolled_back(users, undo) ==
    IF undo.op = "add"
    THEN [u \in DOMAIN users \ {undo.user_id} |-> users[u]]
    ELSE [u \in DOMAIN users \cup {undo.user_id} |->
             IF u = undo.user_id THEN undo.username ELSE users[u]]

\* save_trusted_users_to_config: the file gets the keys of the trust set,
\* or the save fails and the tool rolls the trust set back
T_TrustSave(t, ok) ==
    /\ tasks[t].pc = "save"
    /\ IF ok
       THEN /\ configFile' = DOMAIN trusted
            /\ UNCHANGED trusted
            /\ ToolReturns(t, Result(FALSE, TRUE, FALSE))
       ELSE /\ trusted' = rolled_back(trusted, rollback)
            /\ UNCHANGED configFile
            /\ ToolReturns(t, Result(TRUE, TRUE, FALSE))
    /\ rollback' = NoRollback
    /\ UNCHANGED trustedAtCall
    /\ TrustFrame

\* the messages a batch can hold: group messages, DMs, channel posts
BatchMsgs(id) ==
    {Msg(GroupChat, id, OwnerId), Msg(GroupChat, id, StrangerId),
     Msg(OwnerId, id, OwnerId), Msg(StrangerId, id, StrangerId),
     Msg(GroupChat, id, 0)}

\* the batches of one or more messages, numbered as they came
Batches ==
    UNION {{b \in [1..n -> UNION {BatchMsgs(i) : i \in 1..n}] :
               \A i \in 1..n : b[i].message_id = i} : n \in 1..MaxMsgs}

Usernames == {"none", "name"}

TrustCalls == {AddTrustedUser(u) : u \in Users \cup {NoUser}}
                 \cup {RemoveTrustedUser(u) : u \in Users \cup {NoUser}}

\* a dispatch task is in its tool loop on a response of trust intents; the
\* batch went through handle_message, the stranger is trusted or is not
InitTrustTurnFrom(lists) ==
    /\ \E b \in Batches :
          /\ tasks = [t \in TaskIds |-> IF t = 1 THEN [pc |-> "exec", batch |-> b]
                                                 ELSE [pc |-> "none", batch |-> <<>>]]
          /\ ctxMessages = b
          /\ ctxIndex = [i \in DOMAIN b |-> i]
          /\ dbMessages = b
          /\ dbUsers = [u \in {b[i].user_id : i \in DOMAIN b} |->
                           [message_count |-> Cardinality({i \in DOMAIN b : b[i].user_id = u}),
                            status |-> "member"]]
          /\ lastMsgId = [c \in Chats |->
                             Cardinality({i \in DOMAIN b : b[i].chat_id = c})]
          /\ nUpdates = Len(b)
          /\ batches = <<b>>
    /\ response \in [calls : SeqsUpTo(TrustCalls, MaxCalls) \ {<<>>}, compacted : {FALSE}]
    /\ trusted \in lists
    /\ configFile = DOMAIN trusted
    /\ rollback = NoRollback
    /\ trustedAtCall = trusted
    /\ strikes = [u \in Users |-> 0]
    /\ deleted = {} /\ banned = {} /\ dmDenied = {}
    /\ pending = <<>> /\ handlers = {}
    /\ claudeHolder = 1 /\ bridgeUp = TRUE
    /\ iteration = 0 /\ toolIdx = 1
    /\ results = <<>> /\ images = 0 /\ sentCount = 0
    /\ delivered = NoSend
    /\ lastCall = [kind |-> "batch", by |-> 1, payload |-> tasks[1].batch]
    /\ callFlip = TRUE
    /\ spamSeen = {}
    /\ turnEnd = [t \in TaskIds |-> "none"]
    /\ InitDebouncer /\ InitDebObs /\ InitReminders /\ InitTools

InitTrustTurn ==
    InitTrustTurnFrom({<<>>} \cup {(StrangerId :> n) : n \in Usernames})

NextTrust ==
    \/ \E t \in TaskIds, n \in Usernames : execute_add_trusted_user(t, n)
    \/ \E t \in TaskIds : execute_remove_trusted_user(t)
    \/ \E t \in TaskIds, ok \in BOOLEAN : T_TrustSave(t, ok)

SpecTrust == InitTrustTurn /\ [][NextTrust]_vars

\* Config::load lines 157-163: the trusted_dm_users of the file, whatever
\* ids it lists, each with no username yet
LoadedLists == UNION {[D -> {"none"}] : D \in SUBSET Users}

\* DMs arrive while a turn runs the trust tools
NextTrustDM ==
    \/ NextTrust
    \/ \E u \in Users : DirectMessage(MaxMsgs + MaxCalls, u)

SpecTrustDM == InitTrustTurnFrom(LoadedLists) /\ [][NextTrustDM]_vars

\* ------------------------------------------------------ the reminder loop
ReminderIds == 1..MaxReminders

\* Database::get_due_reminders: the ids of the rows with active = 1 and
\* trigger_at <= now, ORDER BY trigger_at ASC
get_due_reminders(rows, now) ==
    LET due == {r \in DOMAIN rows : rows[r].active /\ rows[r].trigger_at <= now}
    IN  CHOOSE q \in SeqsUpTo(due, MaxReminders) :
           /\ Len(q) = Cardinality(due) /\ SeqToSet(q) = due
           /\ \A i \in DOMAIN q : \A j \in DOMAIN q :
                 i < j => \/ rows[q[i]].trigger_at < rows[q[j]].trigger_at
                          \/ /\ rows[q[i]].trigger_at = rows[q[j]].trigger_at
                             /\ q[i] < q[j]

\* Database::mark_reminder_completed: UPDATE reminders SET active = 0,
\* last_triggered_at = now WHERE id
mark_reminder_completed(rows, id, now) ==
    [rows EXCEPT ![id].active = FALSE, ![id].last_triggered_at = now]

\* Database::reschedule_reminder: UPDATE reminders SET trigger_at = next,
\* last_triggered_at = now WHERE id
reschedule_reminder(rows, id, next, now) ==
    [rows EXCEPT ![id].trigger_at = next, ![id].last_triggered_at = now]

\* a schedule whose iterator starts at the instant it is asked about
cron_from_now(now) == now

\* reminders::next_cron_trigger(cron, now): schedule.after(&now).next(),
\* the first occurrence after now of a schedule that has one at every instant
next_cron_trigger(now) == now + 1

ReminderFrame == UNCHANGED <<engineVars, debVars, debObs, trustVars, toolVars>>

\* the wall clock moves on
R_Clock ==
    /\ clock < MaxClock
    /\ clock' = clock + 1
    /\ UNCHANGED <<reminders, remLoop, remDue, remSent, restarts, cancelled>>
    /\ ReminderFrame

\* interval.tick() came: check_reminders reads the due reminders and
\* returns at once if there is none
R_Check ==
    /\ remLoop = "idle"
    /\ remDue' = get_due_reminders(reminders, clock)
    /\ remLoop' = IF remDue' = <<>> THEN "idle" ELSE "send"
    /\ UNCHANGED <<reminders, remSent, clock, restarts, cancelled>>
    /\ ReminderFrame

\* check_reminders lines 1597-1606: telegram.send_message for the next
\* reminder of the list; a failure is logged
R_Send(ok) ==
    /\ remLoop = "send"
    /\ remSent' = IF ok THEN [remSent EXCEPT ![Head(remDue)] = @ + 1] ELSE remSent
    /\ remLoop' = "update"
    /\ UNCHANGED <<reminders, remDue, clock, restarts, cancelled>>
    /\ ReminderFrame

\* check_reminders lines 1608-1631: reschedule a recurring reminder (or
\* retire it if its cron cannot be evaluated), mark a one-shot completed
R_Update(cronOk) ==
    /\ remLoop = "update"
    /\ LET r == Head(remDue)
       IN  reminders' =
              IF reminders[r].repeat_cron /\ cronOk
              THEN reschedule_reminder(reminders, r, next_cron_trigger(clock), clock)
              ELSE mark_reminder_completed(reminders, r, clock)
    /\ remDue' = Tail(remDue)
    /\ remLoop' = IF remDue' = <<>> THEN "idle" ELSE "send"
    /\ UNCHANGED <<remSent, clock, restarts, cancelled>>
    /\ ReminderFrame

\* the process stops and is started again over the same archive: the
\* reminder loop starts afresh, the reminders table is what it was
R_Restart ==
    /\ restarts < MaxRestarts
    /\ restarts' = restarts + 1
    /\ remLoop' = "idle"
    /\ remDue' = <<>>
    /\ UNCHANGED <<reminders, remSent, clock, cancelled>>
    /\ ReminderFrame

\* Database::cancel_reminder: UPDATE reminders SET active = 0 WHERE id = ?1
\* AND active = 1; true if a row changed
cancel_reminder(rows, id) ==
    IF id \in DOMAIN rows /\ rows[id].active
    THEN [rows |-> [rows EXCEPT ![id].active = FALSE], ok |-> TRUE]
    ELSE [rows |-> rows, ok |-> FALSE]

\* execute_cancel_reminder, called from the tool loop of a dispatch task
\* while the reminder loop runs: Ok if a row was cancelled, Err if not
execute_cancel_reminder(reminder_id) ==
    /\ reminders' = cancel_reminder(reminders, reminder_id).rows
    /\ cancelled' = IF cancel_reminder(reminders, reminder_id).ok
                    THEN cancelled \cup {reminder_id} ELSE cancelled
    /\ UNCHANGED <<remLoop, remDue, remSent, clock, restarts>>
    /\ ReminderFrame

\* the reminders table after set_reminder created MaxReminders rows
InitReminderLoop ==
    /\ InitEngine /\ InitDebouncer /\ InitDebObs /\ InitTrust /\ InitTools
    /\ reminders \in [ReminderIds -> [trigger_at : 1..2, active : {TRUE},
                                       repeat_cron : BOOLEAN,
                                       last_triggered_at : {None}]]
    /\ remLoop = "idle" /\ remDue = <<>>
    /\ remSent = [r \in ReminderIds |-> 0]
    /\ clock = 0 /\ restarts = 0 /\ cancelled = {}

NextReminder ==
    \/ R_Clock
    \/ R_Check
    \/ \E ok \in BOOLEAN : R_Send(ok)
    \/ \E cronOk \in BOOLEAN : R_Update(cronOk)
    \/ R_Restart

SpecReminder == InitReminderLoop /\ [][NextReminder]_vars

\* the reminder loop and a dispatch task that cancels reminders
NextCancel ==
    \/ NextReminder
    \/ \E id \in ReminderIds : execute_cancel_reminder(id)

SpecCancel == InitReminderLoop /\ [][NextCancel]_vars

\* ------------------------------------------- the memory tools, turn by turn
SpecMemory == Init /\ [][NextMemory]_vars

\* ------------------------------------------------ the query tool in a turn
\* a dispatch task is in its tool loop on a response of query intents
InitQuery ==
    /\ strikes = [u \in Users |-> 0]
    /\ deleted = {} /\ banned = {} /\ dmDenied = {}
    /\ lastMsgId = [c \in Chats |-> IF c = GroupChat THEN 1 ELSE 0]
    /\ nUpdates = 1
    /\ ctxMessages = <<FirstMsg>> /\ ctxIndex = (1 :> 1)
    /\ dbMessages = (1 :> FirstMsg)
    /\ dbUsers = (StrangerId :> [message_count |-> 1, status |-> "member"])
    /\ pending = <<>> /\ handlers = {}
    /\ tasks = [t \in TaskIds |-> IF t = 1 THEN [pc |-> "exec", batch |-> <<FirstMsg>>]
                                           ELSE [pc |-> "none", batch |-> <<>>]]
    /\ claudeHolder = 1 /\ bridgeUp = TRUE
    /\ response = [calls |-> <<Query, Query>>, compacted |-> FALSE]
    /\ iteration = 0 /\ toolIdx = 1
    /\ results = <<>> /\ images = 0 /\ sentCount = 0
    /\ delivered = NoSend
    /\ lastCall = [kind |-> "batch", by |-> 1, payload |-> <<FirstMsg>>]
    /\ callFlip = TRUE
    /\ spamSeen = {} /\ batches = <<<<FirstMsg>>>>
    /\ turnEnd = [t \in TaskIds |-> "none"]
    /\ InitDebouncer /\ InitDebObs /\ InitTrust /\ InitReminders /\ InitTools

NextQuery ==
    \E t \in TaskIds, sql \in Statements, prepares \in BOOLEAN :
        execute_query(t, sql, prepares)

SpecQuery == InitQuery /\ [][NextQuery]_vars

\* ------------------------------------------- a user that keeps on spamming
\* the texts the pipeline takes for spam when the classifier says so
SpamTexts == {text \in Texts : IsSpam(StrangerId, text, "Spam")}

\* a stranger sends spam after spam to the group; the ban does not keep the
\* messages away (ban_chat_member can fail, which is only logged)
NextStrikes ==
    \E text \in SpamTexts : GroupMessage(MaxSpam, StrangerId, text, "Spam")

SpecStrikes == Init /\ [][NextStrikes]_vars

\* --------------------------------------------- the bridge from its start
SpecWorker == Init /\ [][NextWorker]_vars

SpecDialogue == Init /\ [][NextDialogue]_vars

\* ------------------------------------------- messages and edits of them
\* the answers of a reasoner that has nothing to say
DoneResponses == [calls : {<<Done>>}, compacted : {FALSE}]

NextEdit ==
    \/ \E u \in Users : ArriveDM(u)
    \/ \E u \in Users : ArriveGroup(u, NoText, "NotSpam")
    \/ \E h \in handlers : HM_Context(h)
    \/ \E h \in handlers : HM_Archive(h)
    \/ \E h \in handlers : HM_Pending(h)
    \/ \E h \in handlers : HM_Trigger(h)
    \/ \E id \in 1..MaxMsgs, text \in EditTexts : handle_edit(id, text)
    \/ DebRecv
    \/ Tick
    \/ DebFire
    \/ \E t \in TaskIds : T_Take(t)
    \/ \E t \in TaskIds : T_Lock(t)
    \/ \E t \in TaskIds : T_SendBatch(t, DoneResponses)
    \/ \E t \in TaskIds : T_Loop(t, DoneResponses)
    \/ \E t \in TaskIds : T_Exec(t, Succeeds)
    \/ \E t \in TaskIds : T_Decide(t, DoneResponses)

SpecEdit == Init /\ [][NextEdit]_vars

\* ------------------------------------------ edits and the spam filter
\* the new text of an edited message, by what the prefilter would read of
\* it: a greeting, and a text with a spam pattern
EditedTexts ==
    {[hasText |-> TRUE, magic |-> FALSE, spamPat |-> FALSE, safePat |-> TRUE,
      short |-> TRUE],
     [hasText |-> TRUE, magic |-> FALSE, spamPat |-> TRUE, safePat |-> FALSE,
      short |-> FALSE]}

\* group messages go through the spam filter and handle_message, and
\* Telegram reports edits of them
NextEditSpam ==
    \/ \E u \in Users, text \in Texts \cup {NoText}, v \in Verdicts : ArriveGroup(u, text, v)
    \/ \E h \in handlers : HM_Context(h)
    \/ \E h \in handlers : HM_Archive(h)
    \/ \E h \in handlers : HM_Pending(h)
    \/ \E h \in handlers : HM_Trigger(h)
    \/ \E id \in 1..MaxMsgs, text \in EditedTexts : handle_edit(id, text)

SpecEditSpam == Init /\ [][NextEditSpam]_vars

\* --------------------------------- compaction recovery and README.md
\* the path the reasoner gives to write its persistent memory
ReadmePath == <<"README.md">>

\* one turn of a terse reasoner whose context is compacted now and then,
\* while memories/README.md is created and deleted
NextRestore ==
    \/ NextTurnTerse
    \/ execute_create_memory(ReadmePath)
    \/ execute_delete_memory(ReadmePath)

SpecRestore == InitTurn /\ [][NextRestore]_vars

\* ------------------------------------------- from intake to the flush
\* intake, handle_message, the debouncer and the flush of its dispatch tasks
NextFlush ==
    \/ \E u \in Users : ArriveDM(u)
    \/ \E u \in Users, text \in Texts \cup {NoText}, v \in Verdicts : ArriveGroup(u, text, v)
    \/ \E h \in handlers : HM_Context(h)
    \/ \E h \in handlers : HM_Archive(h)
    \/ \E h \in handlers : HM_Pending(h)
    \/ \E h \in handlers : HM_Trigger(h)
    \/ DebRecv
    \/ Tick
    \/ DebFire
    \/ \E t \in TaskIds : T_Take(t)

\* a step of some handle_message call
HandlerStep ==
    \E h \in handlers : HM_Context(h) \/ HM_Archive(h) \/ HM_Pending(h) \/ HM_Trigger(h)

\* the runtime goes on polling every spawned task, and the clock goes on
SpecFlushFair ==
    /\ Init /\ [][NextFlush]_vars
    /\ WF_vars(HandlerStep) /\ WF_vars(DebRecv) /\ WF_vars(Tick)
    /\ WF_vars(DebFire) /\ \A t \in TaskIds : WF_vars(T_Take(t))

\* ------------------------------------------------ the member bookkeeping
NextMembers ==
    \/ \E u \in Users, old \in MemberStatuses, new \in MemberStatuses :
          handle_chat_member(MaxMemberUpdates, u, old, new)
    \/ \E u \in Users : GroupMessage(MaxMemberUpdates, u, NoText, "NotSpam")
    \/ \E h \in handlers : HM_Context(h)
    \/ \E h \in handlers : HM_Archive(h)
    \/ \E h \in handlers : HM_Pending(h)
    \/ \E h \in handlers : HM_Trigger(h)

SpecMembers == Init /\ [][NextMembers]_vars

\* ================================================================== claims
Range(f) == {f[k] : k \in DOMAIN f}

\* the dispatch task t is inside process_messages, holding the bridge
InTurn(t) == tasks[t].pc \in {"send", "restore0", "loop", "exec", "save",
                               "decide", "images", "restore"}

\* how often message m occurs in the flushed batches and the Pending Batch
Occurrences(m) ==
    Cardinality({bi \in (DOMAIN batches) \X (1..MaxMsgs) :
                    bi[2] <= Len(batches[bi[1]]) /\ batches[bi[1]][bi[2]] = m})
    + Cardinality({i \in DOMAIN pending : pending[i] = m})

\* C1: a group message the moderation pipeline classified as spam is never
\* in the Archive, never in the Context Buffer, never in the Pending Batch,
\* never in a flushed batch and never in the hands of handle_message.
C1_SpamNeverStored ==
    \A m \in spamSeen :
        /\ m \notin Range(dbMessages)
        /\ m \notin SeqToSet(ctxMessages)
        /\ m \notin SeqToSet(pending)
        /\ \A i \in DOMAIN batches : m \notin SeqToSet(batches[i])
        /\ \A h \in handlers : h.msg # m

\* C1 witness: a spam message was enforced while another message of the
\* same group went through handle_message into the Archive and a batch
C1_Witness ==
    /\ \E m \in spamSeen : m \in deleted
    /\ \E k \in DOMAIN dbMessages : dbMessages[k].chat_id = GroupChat
    /\ \E i \in DOMAIN batches : batches[i] # <<>>

\* C3: whenever a dispatch task is between its first bridge call and its
\* return it is the holder of the bridge, so two turns are never in flight
\* together; every bridge call and every tool execution is a step of the
\* holder.
C3_OneTurnInFlight ==
    /\ [](\A t \in TaskIds : InTurn(t) => claudeHolder = t)
    /\ [][(callFlip' # callFlip \/ results' # results \/ sentCount' # sentCount)
              => /\ claudeHolder # 0
                 /\ InTurn(claudeHolder)
                 /\ \A u \in TaskIds \ {claudeHolder} : tasks'[u] = tasks[u]
                 /\ lastCall'.by \in {lastCall.by, claudeHolder}]_vars

\* C3 witness: the debouncer fired again while a turn is running: one task
\* is in its tool loop and another one waits for the bridge
C3_Witness ==
    \E t \in TaskIds, u \in TaskIds :
        /\ tasks[t].pc \in {"exec", "decide"}
        /\ tasks[u].pc = "lock"

\* C4: every message handle_message pushed is in exactly one place, the
\* Pending Batch or one flushed batch, and once only; a message not pushed
\* yet is in none; a flush that took an empty batch never locks the bridge
\* and never calls it.
C4_AtomicSwap ==
    /\ \A m \in SeqToSet(ctxMessages) :
          m.user_id # BotUserId =>
             IF \E h \in handlers : h.msg = m /\ h.pc \in {"db", "pend"}
             THEN Occurrences(m) = 0
             ELSE Occurrences(m) = 1
    /\ \A t \in TaskIds :
          /\ turnEnd[t] = "noop" => tasks[t] = [pc |-> "done", batch |-> <<>>]
          /\ tasks[t].batch = <<>> => ~InTurn(t) /\ tasks[t].pc # "lock"
                                      /\ lastCall.by # t /\ claudeHolder # t
    /\ Cardinality({i \in DOMAIN batches : batches[i] = <<>>})
          = Cardinality({t \in TaskIds : turnEnd[t] = "noop"})

\* C4 witness: one flush took both messages, the flush after it took an
\* empty batch and returned
C4_Witness ==
    /\ \E i \in DOMAIN batches : Len(batches[i]) = 2
    /\ \E t \in TaskIds : turnEnd[t] = "noop"

\* C4 witness of the race: a message is being pushed while a flush is
\* about to take the batch that already holds another message
C4_RaceWitness ==
    /\ \E h \in handlers : h.pc = "pend"
    /\ \E t \in TaskIds : tasks[t].pc = "take"
    /\ pending # <<>>
\* a step of the dispatch task itself (not of its environment)
TurnStep == tasks' # tasks \/ callFlip' # callFlip

\* the step is a bridge call of task t of the given kind, carrying payload
Calls(t, kind, payload) ==
    /\ callFlip' # callFlip
    /\ lastCall'.by = t /\ lastCall'.kind = kind /\ lastCall'.payload = payload

\* C2, as the spec states it: the engine executes tool intents of a
\* response flagged compacted only if that response answered a restoration
\* turn. The code breaks it: the answer to the synthetic error result of an
\* empty response is never checked for the flag.
C2_ToolsOnlyAfterRestoration ==
    \A t \in TaskIds :
        tasks[t].pc = "exec" /\ response.compacted => lastCall.kind = "restore"

\* C7: the step that follows the last tool of an iteration ends the turn
\* cleanly iff the response had a done intent and no result of the iteration
\* has is_error, content or an image; otherwise the results go back to the
\* bridge as one tool_results turn (or the bridge is gone and the turn fails).
C7_CleanExitIff ==
    [][\A t \in TaskIds :
          tasks[t].pc = "decide" /\ TurnStep =>
             LET clean == /\ Done \in SeqToSet(response.calls)
                          /\ \A i \in DOMAIN results :
                                ~results[i].is_error /\ ~results[i].content
                                /\ ~results[i].image
             IN  /\ Len(results) = Len(response.calls)
                 /\ turnEnd'[t] = "clean" <=> clean
                 /\ clean => ~(callFlip' # callFlip) /\ tasks'[t].pc = "done"
                 /\ ~clean => \/ Calls(t, "tool_results", results)
                              \/ ~bridgeUp /\ turnEnd'[t] = "bridge_err"]_vars

\* C7 witness: a response [send_message, done] whose message was sent ended
\* the turn cleanly
C7_Witness ==
    /\ turnEnd[1] = "clean"
    /\ response.calls = <<SendMessage(GroupChat), Done>>
    /\ sentCount = 1

\* C7 witness of the other side: done came with a query, whose result has
\* content, and the results went back as a tool_results turn
C7_WitnessContinue ==
    /\ lastCall.kind = "tool_results"
    /\ lastCall.payload = <<Result(FALSE, TRUE, FALSE), Result(FALSE, FALSE, FALSE)>>
    /\ iteration = 1

C9_BoundedTurn ==
    /\ [](\A t \in TaskIds :
            /\ iteration <= MAX_ITERATIONS
            /\ tasks[t].pc \in {"exec", "decide", "images", "restore"}
                  => iteration < MAX_ITERATIONS
            /\ turnEnd[t] = "cap" => iteration = MAX_ITERATIONS /\ tasks[t].pc = "done"
            /\ turnEnd[t] # "none" => tasks[t].pc = "done" /\ claudeHolder # t)
    /\ [][\A t \in TaskIds : tasks[t].pc = "done" =>
             /\ tasks'[t] = tasks[t] /\ turnEnd'[t] = turnEnd[t]
             /\ results' = results /\ callFlip' = callFlip
             /\ sentCount' = sentCount]_vars
    /\ \A t \in TaskIds : (tasks[t].pc = "lock") ~> (tasks[t].pc = "done")

\* C9 witness: the tenth iteration executed a tool and the turn returned
\* at the cap
C9_Witness ==
    /\ turnEnd[1] = "cap" /\ iteration = MAX_ITERATIONS
    /\ Len(results) > 0 /\ lastCall.kind = "tool_results"
    /\ lastCall.payload = results
\* C5: a burst of N >= 1 triggers, each less than D after the previous
\* one, gets exactly one callback: never a second one, the one only when D
\* ticks have passed since the last trigger with nothing left in the
\* channel, and it does come.
C5_OneCallbackAfterQuiet ==
    /\ [](calls <= 1)
    /\ [][calls' > calls =>
             /\ burst >= 1 /\ sinceTrig >= DebounceTicks /\ resetChan = 0
             /\ calls' = 1]_vars
    /\ (burst >= 1) ~> (calls = 1)

\* C5 witness: the last burst, of MaxBurst triggers, was answered by its one
\* callback
C5_Witness == burst = MaxBurst /\ calls = 1 /\ debState = "idle" /\ cycle = MaxCycles
\* the requesting user of task t's batch is the owner writing in the
\* owner's DM: the last message with a user_id other than 0 has the owner's
\* id as user_id and as chat_id
OwnerInDM(t) ==
    LET b == tasks[t].batch
    IN  \E i \in DOMAIN b :
           /\ b[i].user_id = OwnerId /\ b[i].chat_id = OwnerId
           /\ \A j \in DOMAIN b : j > i => b[j].user_id = 0

\* C6: the trust set and the config file change only in a turn whose
\* requesting user is the owner in the owner's DM; in every other turn each
\* add_trusted_user / remove_trusted_user returns an error result at once
\* and leaves both as they were.
C6_OwnerDMOnly ==
    [][\A t \in TaskIds :
          tasks[t].pc \in {"exec", "save"} /\ tasks'[t] # tasks[t] =>
             /\ (trusted' # trusted \/ configFile' # configFile) => OwnerInDM(t)
             /\ ~OwnerInDM(t) =>
                   /\ trusted' = trusted /\ configFile' = configFile
                   /\ tasks[t].pc = "exec" /\ tasks'[t].pc # "save"
                   /\ Len(results') = Len(results) + 1
                   /\ Last(results').is_error]_vars

\* C6 witness: the owner, in the owner's DM, added the stranger: the
\* stranger is in the trust set and in the config file
C6_Witness ==
    /\ OwnerInDM(1) /\ tasks[1].pc = "decide"
    /\ response.calls = <<AddTrustedUser(StrangerId)>>
    /\ StrangerId \in DOMAIN trusted /\ configFile = {StrangerId}
    /\ results = <<Result(FALSE, TRUE, FALSE)>>

\* C6 witness of the refusal: the last message of the batch is the owner's
\* but in the group, and the tool returned an error
C6_WitnessRefused ==
    /\ Last(tasks[1].batch) = Msg(GroupChat, Len(tasks[1].batch), OwnerId)
    /\ response.calls = <<AddTrustedUser(StrangerId)>>
    /\ results = <<Result(TRUE, TRUE, FALSE)>>
    /\ trusted = <<>> /\ configFile = {}
\* C10, as the spec states it: Telegram never delivers the message of a
\* one-shot reminder a second time. The code sends before it marks the row:
\* a restart between the two sends the same reminder again.
C10_NeverSentTwice ==
    \A r \in DOMAIN reminders :
        ~reminders[r].repeat_cron => remSent[r] <= 1

\* C11, as the spec states it: a send_message intent without a reply target
\* of its own, for the chat of the batch's last message, is delivered by
\* Telegram with that message as its reply target. The code breaks it: the
\* Context Buffer is indexed by message id alone, so a message of another
\* chat with the same id makes the validation drop the reply target.
C11_DefaultReplyDelivered ==
    [][\A t \in TaskIds :
          (/\ tasks[t].pc = "exec" /\ sentCount' = sentCount + 1
           /\ response.calls[toolIdx].tool = "send_message"
           /\ response.calls[toolIdx].reply_to_message_id = None
           /\ response.calls[toolIdx].chat_id = Last(tasks[t].batch).chat_id)
          => /\ delivered'.by = t
             /\ delivered'.chat_id = Last(tasks[t].batch).chat_id
             /\ delivered'.reply_to_message_id = Last(tasks[t].batch).message_id]_vars

\* a step of a memory tool (one that shows in its result or on the disk)
MemStep == memResult' # memResult \/ fsFiles' # fsFiles \/ fsDirs' # fsDirs

\* C12: edit_memory writes the file only if read_memory of the same path
\* succeeded earlier in the same turn; an edit of a path that was never read,
\* or read in an earlier turn only, returns the "Must read_memory" error and
\* leaves the files and directories as they were.
C12_EditNeedsReadInTurn ==
    [][MemStep /\ memResult'.tool = "edit" =>
          LET path == memResult'.path
          IN  /\ fsFiles' # fsFiles =>
                    readTurn[path] = memTurn /\ memResult'.err = "none"
              /\ readTurn[path] # memTurn =>
                    /\ memResult'.err = "must_read"
                    /\ fsFiles' = fsFiles /\ fsDirs' = fsDirs]_vars

\* C12 witness: in the second turn the file was read and then edited
C12_Witness ==
    /\ memTurn = 2
    /\ memResult = [tool |-> "edit", path |-> <<"a">>, err |-> "none"]
    /\ readTurn[<<"a">>] = 2
    /\ fsFiles[<<<<"a">>>>] = 2

\* C12 witness of the refusal: the file exists and was read in the first
\* turn, the edit of the second turn is refused
C12_WitnessStaleRead ==
    /\ memTurn = 2
    /\ memResult = [tool |-> "edit", path |-> <<"a">>, err |-> "must_read"]
    /\ readTurn[<<"a">>] = 1
    /\ <<<<"a">>>> \in DOMAIN fsFiles

\* the relative path contains "..", starts with '/' or '\', or is empty
BadPath(path) ==
    \/ path = <<>>
    \/ path[1] = "/" \/ path[1] = "\\"
    \/ \E i \in DOMAIN path : i < Len(path) /\ path[i] = "." /\ path[i + 1] = "."

\* C13: a memory tool (create, read, edit, list, search, delete) called with
\* a relative path that contains "..", starts with '/' or '\', or is empty
\* returns an error, and no file or directory is created, changed or deleted.
C13_BadPathNoMutation ==
    [][MemStep /\ BadPath(memResult'.path) =>
          /\ memResult'.err \in {"dotdot", "absolute", "empty", "must_read"}
          /\ memResult'.err = "must_read" => memResult'.tool = "edit"
          /\ fsFiles' = fsFiles /\ fsDirs' = fsDirs]_vars

\* C13 witness: with a file and a subdirectory in place, delete_memory of a
\* path that starts with a backslash was refused
C13_Witness ==
    /\ memResult = [tool |-> "delete", path |-> <<"\\", "a">>, err |-> "absolute"]
    /\ <<<<"d">>, <<"a">>>> \in DOMAIN fsFiles
    /\ <<<<"d">>>> \in fsDirs

\* the statement, trimmed and upper-cased, does not start with SELECT or
\* holds one of the forbidden keywords
Refusable(sql) ==
    LET s == trim(sql)
        u == [i \in DOMAIN s |-> Upper(s[i])]
    IN  \/ u = <<>> \/ u[1] # "SELECT"
        \/ \E i \in DOMAIN u : u[i] \in {"INSERT", "DROP", "UPDATED_AT"}

C15_OneStrikePerVerdict ==
    [][\A m \in spamSeen' \ spamSeen :
          /\ strikes'[m.user_id] = strikes[m.user_id] + 1
          /\ m \in deleted'
          /\ m.user_id \in banned' <=> strikes'[m.user_id] >= max_strikes]_vars

\* C16: when save_trusted_users_to_config fails in add_trusted_user or
\* remove_trusted_user (the config file stays as it was), the tool returns
\* an error result and the trust set is what it was when the tool was
\* called: the added user is gone, the removed user is back with the
\* username stored before.
C16_RollbackOnSaveFailure ==
    [][\A t \in TaskIds :
          (tasks[t].pc = "save" /\ tasks'[t].pc # "save" /\ configFile' = configFile)
          => /\ Len(results') = Len(results) + 1
             /\ Last(results').is_error
             /\ trusted' = trustedAtCall]_vars

\* C16 witness: the owner, in the owner's DM, asked to remove the stranger,
\* trusted with a username; the save failed: the tool returned an error and
\* the stranger is still trusted under that username
C16_Witness ==
    /\ OwnerInDM(1) /\ tasks[1].pc = "decide"
    /\ response.calls = <<RemoveTrustedUser(StrangerId)>>
    /\ results = <<Result(TRUE, TRUE, FALSE)>>
    /\ trusted = (StrangerId :> "name") /\ configFile = {StrangerId}

\* C16 witness of the failed add: the stranger is not trusted after it
C16_WitnessAdd ==
    /\ OwnerInDM(1) /\ tasks[1].pc = "decide"
    /\ response.calls = <<AddTrustedUser(StrangerId)>>
    /\ results = <<Result(TRUE, TRUE, FALSE)>>
    /\ trusted = <<>> /\ configFile = {} /\ trustedAtCall = <<>>

\* C17, as the spec states it: once a bridge call of a turn has failed, the
\* turn is over, its batch is not in the Pending Batch again, no further
\* bridge call is made, and the messages of the batch are in the Archive.
\* The code breaks the last part: the messages table is keyed by message_id
\* alone, and a message of another chat with the same id replaces the row.
C17_FailedBatchStaysArchived ==
    \A t \in TaskIds :
        turnEnd[t] = "bridge_err" =>
           /\ tasks[t].pc = "done" /\ claudeHolder # t
           /\ \A i \in DOMAIN tasks[t].batch :
                 /\ tasks[t].batch[i] \notin SeqToSet(pending)
                 /\ tasks[t].batch[i] \in Range(dbMessages)

\* the part of C17 the code keeps: the failed call ends the turn in the same
\* step and changes neither the Archive nor the Pending Batch, the batch
\* stays out of the Pending Batch, and no bridge call follows the failure.
C17_TurnEndsBatchConsumed ==
    /\ [](\A t \in TaskIds :
            turnEnd[t] = "bridge_err" =>
               /\ tasks[t].pc = "done" /\ claudeHolder # t /\ ~bridgeUp
               /\ \A i \in DOMAIN tasks[t].batch :
                     tasks[t].batch[i] \notin SeqToSet(pending))
    /\ [][\A t \in TaskIds :
             turnEnd'[t] = "bridge_err" /\ turnEnd[t] # "bridge_err" =>
                /\ InTurn(t) /\ tasks'[t].pc = "done"
                /\ dbMessages' = dbMessages /\ pending' = pending
                /\ callFlip' = callFlip]_vars
    /\ [][~bridgeUp => callFlip' = callFlip]_vars

\* C18: the execution of an intent never ends the turn, whatever its outcome:
\* it appends one result and goes on to the next intent in the returned
\* order; a send that Telegram did not take has a result with is_error; all
\* intents have a result when the loop is over; and results with a failure
\* among them are sent to the bridge as one tool_results turn (the turn then
\* ends only if the bridge itself is gone).
C18_ToolFailureNotFatal ==
    /\ [](\A t \in TaskIds :
            tasks[t].pc = "decide" => Len(results) = Len(response.calls))
    /\ [][\A t \in TaskIds :
             tasks[t].pc = "exec" /\ TurnStep =>
                LET call == response.calls[toolIdx]
                IN  /\ Len(results) = toolIdx - 1
                    /\ Len(results') = toolIdx /\ toolIdx' = toolIdx + 1
                    /\ SubSeq(results', 1, toolIdx - 1) = results
                    /\ turnEnd'[t] = "none" /\ claudeHolder' = t
                    /\ tasks'[t].pc =
                          IF toolIdx < Len(response.calls) THEN "exec" ELSE "decide"
                    /\ call.tool \in {"send_message", "send_photo"} =>
                          (results'[toolIdx].is_error <=> sentCount' = sentCount)]_vars
    /\ [][\A t \in TaskIds :
             /\ tasks[t].pc = "decide" /\ TurnStep
             /\ \E i \in DOMAIN results : results[i].is_error
             => \/ Calls(t, "tool_results", results) /\ turnEnd'[t] = "none"
                \/ ~bridgeUp /\ turnEnd'[t] = "bridge_err"]_vars

\* C18 witness: the first of two intents failed, the second, a send, was
\* executed all the same, and both results went to the bridge in one
\* tool_results turn; the turn goes on
C18_Witness ==
    /\ lastCall.kind = "tool_results" /\ Len(lastCall.payload) = 2
    /\ lastCall.payload[1].is_error /\ ~lastCall.payload[2].is_error
    /\ sentCount = 1
    /\ turnEnd[1] = "none" /\ tasks[1].pc \in {"loop", "images", "restore"}

\* C19, as the spec states it: inside the tool-call loop no intent is
\* executed from a response flagged compacted that answered a tool_results
\* turn (the results of an iteration or the synthetic error result of an
\* empty response) or an image follow-up turn: a restoration turn comes
\* first. The code breaks it: `continue` after the empty-response error turn
\* skips the check at the end of the iteration.
C19_RestoreBeforeFurtherTool ==
    [][\A t \in TaskIds :
          /\ tasks[t].pc = "exec" /\ tasks'[t] # tasks[t]
          /\ Len(results') = Len(results) + 1
          /\ response.compacted
          => lastCall.kind \notin {"tool_results", "image"}]_vars

\* the system frame of the handshake lists a tool other than the
\* structured-output sentinel
ExtraTool == firstSystem.seen /\ \E tool \in firstSystem.tools : tool # "StructuredOutput"

\* C20: if the system frame of the handshake lists a tool other than the
\* structured-output sentinel, the worker ends with the error "Security
\* violation", nothing but the seed frame has been written to the child's
\* stdin, nothing is written to it afterwards, and every call the engine
\* makes on the bridge from then on returns an error.
C20_SecurityAbort ==
    /\ [](ExtraTool =>
            /\ worker.pc = "dead" /\ worker.err = "Security violation"
            /\ stdin = <<first_message>>)
    /\ [][ExtraTool => stdin' = stdin]_vars
    /\ [][ExtraTool /\ caller'.done # caller.done => caller'.err # "none"]_vars

\* C20 witness: the engine had queued a message when the handshake was
\* refused: its call returned an error and the message never reached stdin
C20_Witness ==
    /\ ExtraTool
    /\ "StructuredOutput" \in firstSystem.tools
    /\ caller.done = MaxBridgeCalls
    /\ caller.err = "Worker channel closed"

\* the first call had been queued before the worker ended
C20_WitnessQueued ==
    /\ ExtraTool
    /\ caller.done = 1 /\ caller.err = "Response channel closed"

\* the Responses the bridge has produced: taken by the engine or still queued
Returned == SeqToSet(caller.got) \cup SeqToSet(resp_rx)

\* C21: with a child that keeps to the wire protocol, the Response to an
\* input frame has compacted = TRUE iff the child wrote an assistant frame
\* with a truncated_content_length in the turn of that input; the k-th
\* Response answers the k-th engine input, so a compaction reported in one
\* turn does not reach the Response of another.
C21_CompactedIffSeenInTurn ==
    /\ \A r \in Returned : r.compacted <=> r.input \in truncSeen
    /\ \A i \in DOMAIN caller.got : caller.got[i].input = i + 1

\* C21 witness: the first turn of the engine had a compaction frame and its
\* Response is flagged, the second turn had none and its Response is not
C21_Witness ==
    /\ Len(caller.got) = 2
    /\ caller.got[1].compacted /\ ~caller.got[2].compacted
    /\ truncSeen = {2}

\* the step is check_reminders updating the row of the reminder it just sent
Fired(r) ==
    /\ remLoop = "update" /\ remDue # <<>> /\ Head(remDue) = r
    /\ remDue' = Tail(remDue) /\ restarts' = restarts

C22_WitnessRetired ==
    \E r \in ReminderIds :
        /\ reminders[r].repeat_cron /\ ~reminders[r].active
        /\ reminders[r].last_triggered_at = clock /\ clock > 0

\* C23, as the spec states it: at every moment each message of the Pending
\* Batch is in the Archive and in the Context Buffer. The code breaks the
\* Archive part: the messages table is keyed by message_id alone, and a
\* message of another chat with the same id replaces the row of a message
\* that is still waiting in the Pending Batch.
C23_PendingAlreadyStored ==
    \A i \in DOMAIN pending :
        /\ pending[i] \in Range(dbMessages)
        /\ pending[i] \in SeqToSet(ctxMessages)

\* the part of C23 the code keeps: a message enters the Pending Batch in a
\* step of its own, after the step that wrote it to the Archive and the one
\* that appended it to the Context Buffer, where it stays; the handler sends
\* no trigger before that step and exactly one after it, as its last step.
C23_StoreThenQueueThenSignal ==
    /\ [](\A h \in handlers :
            /\ h.pc \in {"pend", "trig"} => h.msg \in SeqToSet(ctxMessages)
            /\ h.pc = "trig" => \E t \in TaskIds :
                  h.msg \in SeqToSet(pending) \cup SeqToSet(tasks[t].batch))
    /\ [][\A h \in handlers :
             /\ (h.pc = "db" /\ h \notin handlers' =>
                    h.msg \in Range(dbMessages') /\ Advance(h, "pend") = handlers')
             /\ (h.pc = "pend" /\ h \notin handlers' =>
                    pending' = Append(pending, h.msg) /\ resetChan' = resetChan)
             /\ (h.pc = "trig" /\ h \notin handlers' =>
                    resetChan' = resetChan + 1 /\ handlers' = handlers \ {h})
             /\ (resetChan' > resetChan =>
                    \E g \in handlers : g.pc = "trig" /\ g \notin handlers')]_vars

\* the text of the Context Buffer entry at position i: what an edit set, or
\* the text the message came with
TextAt(texts, i) == IF i \in DOMAIN texts THEN texts[i] ELSE "original"

C24_WitnessOtherChat ==
    /\ nEdits = 1
    /\ \E i \in DOMAIN ctxText :
          /\ ctxMessages[i].chat_id = OwnerId
          /\ \E j \in 1..(i - 1) :
                /\ ctxMessages[j].chat_id = GroupChat
                /\ ctxMessages[j].message_id = ctxMessages[i].message_id

\* C25: once the Debouncer is dropped the callback is not invoked again,
\* and the debouncer task ends.
C25_NoCallbackAfterDrop ==
    /\ [][dropped => calls' = calls]_vars
    /\ dropped ~> (debState = "exited")

\* C25 witness: a trigger was sent, the Debouncer was dropped before the
\* quiet period was over, and the task ended without invoking the callback
C25_Witness ==
    /\ dropped /\ debState = "exited"
    /\ burst >= 1 /\ sinceTrig < DebounceTicks
    /\ calls = 0 /\ cycle = 1

\* C26, as the spec states it: a user whose status is banned stays banned in
\* every step, unless the step makes the user a member again. The code
\* breaks it: member_left sets the status to left whatever it was.
C26_BannedStaysBanned ==
    [][\A u \in DOMAIN dbUsers :
          dbUsers[u].status = "banned" =>
             /\ u \in DOMAIN dbUsers'
             /\ dbUsers'[u].status \in {"banned", "member"}]_vars

\* the part of C26 the code keeps: add_message for a banned user counts the
\* message and leaves the status banned
C26_AddMessageKeepsBanned ==
    [][\A u \in DOMAIN dbUsers :
          dbUsers[u].status = "banned" /\ dbMessages' # dbMessages =>
             dbUsers'[u].status = "banned"]_vars

\* C27, as the spec states it: once cancel_reminder(id) returned success the
\* reminder loop never sends the message of reminder id. The code breaks
\* it: check_reminders sends from the list it read before the cancel.
C27_CancelledNeverSent ==
    [][\A r \in cancelled : remSent'[r] = remSent[r]]_vars

\* the part of C27 the code keeps: a check that reads the due list after the
\* cancel does not find the cancelled reminder in it
C27_CancelledNotDueLater ==
    [][remLoop = "idle" => SeqToSet(remDue') \cap cancelled = {}]_vars

\* the place of task t's batch among the flushed batches, in flush order
FlushPos(t) == CHOOSE i \in DOMAIN batches : batches[i] = tasks[t].batch

\* C28, as the spec states it: when a turn makes its first bridge call, no
\* task whose batch was flushed earlier is still waiting to make its own.
\* The code breaks it: nothing orders a task's way from the flush to
\* claude.lock() against the way of the task spawned after it.
C28_FlushOrder ==
    [][\A t \in TaskIds :
          tasks[t].pc = "send" /\ callFlip' # callFlip =>
             \A u \in TaskIds :
                tasks[u].pc = "lock" => FlushPos(t) < FlushPos(u)]_vars

\* the messages intake can hand to handle_message
AcceptedMsgs == {Msg(c, i, u) : c \in Chats, i \in 1..MaxMsgs, u \in Users}

Flushed(m) == \E i \in DOMAIN batches : m \in SeqToSet(batches[i])

\* C29: with the debouncer started, every message handed to handle_message
\* is eventually part of a batch that a dispatch task swapped out of the
\* Pending Batch (the updates of a behaviour are finitely many, so the
\* triggers do stop for a debounce duration).
C29_AcceptedEventuallyFlushed ==
    \A m \in AcceptedMsgs : (\E h \in handlers : h.msg = m) ~> Flushed(m)

\* two accepted messages went out in one batch: the second trigger came
\* while the debounce timer of the first was running
C29_Witness ==
    /\ handlers = {} /\ pending = <<>>
    /\ \E i \in DOMAIN batches : Len(batches[i]) = 2

\* the places of the Context Buffer's list that hold a message with this id
HeldUnder(id) == {i \in DOMAIN ctxMessages : ctxMessages[i].message_id = id}

\* task t's send_message with a reply id of the reasoner's own is delivered
SendsWithReply(t) ==
    /\ tasks[t].pc = "exec" /\ sentCount' = sentCount + 1
    /\ response.calls[toolIdx].tool = "send_message"
    /\ response.calls[toolIdx].reply_to_message_id # None

\* C30, as the spec states it: a send_message whose reply id is not the id
\* of a message of the target chat held in the Context Buffer is delivered
\* without reply target. The code keeps the reply id that the buffer does
\* not know.
C30_ForeignReplyDropped ==
    [][\A t \in TaskIds :
          LET call == response.calls[toolIdx]
          IN  (/\ SendsWithReply(t)
               /\ ~ \E i \in HeldUnder(call.reply_to_message_id) :
                       ctxMessages[i].chat_id = call.chat_id)
              => delivered'.reply_to_message_id = None]_vars

\* C30, amended: if the message the buffer added last under the reply id is
\* of another chat, the message is delivered without reply target; if the
\* buffer holds no message under that id, the id is passed on as it is.
C30_ReplyDroppedOrPassedOn ==
    [][\A t \in TaskIds :
          LET call == response.calls[toolIdx]
              held == HeldUnder(call.reply_to_message_id)
          IN  SendsWithReply(t) =>
                 /\ delivered'.by = t /\ delivered'.chat_id = call.chat_id
                 /\ held = {} =>
                       delivered'.reply_to_message_id = call.reply_to_message_id
                 /\ (/\ held # {}
                     /\ \A i \in held : \E j \in held :
                           j >= i /\ ctxMessages[j].chat_id # call.chat_id)
                       => delivered'.reply_to_message_id = None]_vars

\* a send_message with a reply id was delivered without reply target
C30_Witness ==
    \E t \in TaskIds :
       /\ tasks[t].pc = "decide" /\ delivered.by = t
       /\ response.calls[toolIdx - 1].tool = "send_message"
       /\ response.calls[toolIdx - 1].reply_to_message_id # None
       /\ delivered.reply_to_message_id = None

\* a send_message was delivered as a reply to an id under which the buffer
\* holds no message but the bot's own new one
C30_WitnessUnknown ==
    \E t \in TaskIds :
       /\ tasks[t].pc = "decide" /\ delivered.by = t
       /\ response.calls[toolIdx - 1].tool = "send_message"
       /\ delivered.reply_to_message_id # None
       /\ \A i \in HeldUnder(delivered.reply_to_message_id) :
             ctxMessages[i].user_id = BotUserId

\* the response is made of intents of these tools and of done, done included
OnlyOf(resp, tools) ==
    /\ \A i \in DOMAIN resp.calls : resp.calls[i].tool \in tools \cup {"done"}
    /\ \E i \in DOMAIN resp.calls : resp.calls[i].tool = "done"

AllSucceeded(res) == \A i \in DOMAIN res : ~res[i].is_error

\* task t leaves the exit test: the turn ends there, with no bridge call
EndsInIteration(t) ==
    /\ tasks'[t].pc = "done" /\ turnEnd'[t] = "clean"
    /\ callFlip' = callFlip /\ lastCall' = lastCall

\* C31, as the spec states it: a response of successful send_message,
\* add_reaction, send_photo and send_voice intents plus done ends the turn in
\* that iteration. The code sends a successful send_photo's image back.
C31_ActionsAndDoneEnd ==
    [][\A t \in TaskIds :
          (/\ tasks[t].pc = "decide" /\ tasks'[t].pc # "decide"
           /\ OnlyOf(response, {"send_message", "add_reaction", "send_photo",
                                "send_voice"})
           /\ AllSucceeded(results))
          => EndsInIteration(t)]_vars

\* C31, amended: a response of successful send_message, add_reaction and
\* send_voice intents plus done ends the turn in that iteration with no
\* bridge call; if a successful send_photo is among the intents the turn
\* does not end there, the results go back in a tool_results turn.
C31_SilentActionsAndDoneEnd ==
    [][\A t \in TaskIds :
          (/\ tasks[t].pc = "decide" /\ tasks'[t].pc # "decide"
           /\ OnlyOf(response, {"send_message", "add_reaction", "send_photo",
                                "send_voice"})
           /\ AllSucceeded(results))
          => IF \E i \in DOMAIN response.calls :
                   response.calls[i].tool = "send_photo"
             THEN \/ turnEnd'[t] = "bridge_err"
                  \/ /\ lastCall'.kind = "tool_results"
                     /\ lastCall'.payload = results
                     /\ callFlip' # callFlip /\ tasks'[t].pc = "images"
             ELSE EndsInIteration(t)]_vars

\* a turn ended cleanly on a response of a send_message and done
C31_Witness ==
    \E t \in TaskIds :
       /\ tasks[t].pc = "done" /\ turnEnd[t] = "clean"
       /\ OnlyOf(response, {"send_message", "add_reaction", "send_voice"})
       /\ Len(response.calls) = 2 /\ Len(results) = 2 /\ sentCount = 1
       /\ lastCall.kind = "batch"

\* a successful send_photo with done was followed by a tool_results turn
C31_WitnessPhoto ==
    \E t \in TaskIds :
       /\ tasks[t].pc = "images" /\ lastCall.kind = "tool_results"
       /\ Len(lastCall.payload) = 2
       /\ \E i \in 1..2 : lastCall.payload[i].image
       /\ AllSucceeded(lastCall.payload)

\* a restoration payload goes to the bridge in this step
RestorationSent == callFlip' # callFlip /\ lastCall'.kind = "restore"

\* C32, as the spec states it: every restoration payload sent while
\* memories/README.md exists has the README as its first section. The code
\* breaks it: the restoration inside the tool loop lists recent messages only.
C32_RestorationHasReadme ==
    [][RestorationSent /\ ReadmeReadable =>
          /\ lastCall'.payload # <<>>
          /\ lastCall'.payload[1] = Section("readme")]_vars

\* the part of C32 the code keeps: the restoration at the start of the turn
\* has the README, if it exists, before the recent messages
C32_FirstRestorationHasReadme ==
    [][\A t \in TaskIds :
          tasks[t].pc = "restore0" /\ RestorationSent /\ ReadmeReadable =>
             lastCall'.payload = <<Section("readme"), Section("recent")>>]_vars

\* ContextBuffer::get_message(id) finds message m
Finds(msgs, index, m) ==
    CtxHas(msgs, index, m.message_id) /\ msgs[index[m.message_id]] = m

\* C33, as the spec states it: a message stored in the Archive stays stored,
\* and a message that the Context Buffer finds under its id is still found,
\* whatever message of another chat is added. The code breaks it: both
\* stores are keyed by message_id alone.
C33_KeyedByChatAndMessage ==
    /\ [][\A k \in DOMAIN dbMessages :
             \E j \in DOMAIN dbMessages' : dbMessages'[j] = dbMessages[k]]_vars
    /\ [][\A i \in DOMAIN ctxMessages :
             Finds(ctxMessages, ctxIndex, ctxMessages[i])
                => Finds(ctxMessages', ctxIndex', ctxMessages[i])]_vars

\* the part of C33 the code keeps: the Context Buffer's list still holds
\* every message it held, unaltered and at its place
C33_ContextListKept ==
    [][/\ Len(ctxMessages') >= Len(ctxMessages)
       /\ \A i \in DOMAIN ctxMessages : ctxMessages'[i] = ctxMessages[i]]_vars

\* C34, as the spec states it: once every update is handled, a group
\* message whose text was edited into spam is deleted. The code breaks it:
\* an edit only replaces the text in the Context Buffer.
C34_EditedSpamDeleted ==
    (handlers = {} /\ nEdits > 0) =>
       \A i \in DOMAIN ctxText :
          (/\ ctxMessages[i].chat_id = GroupChat
           /\ IsSpam(ctxMessages[i].user_id, ctxText[i], "NotSpam"))
          => ctxMessages[i] \in deleted

\* the part of C34 the code keeps: an edit changes neither the deleted
\* messages nor the strikes nor the bans
C34_EditLeavesModerationAlone ==
    [][nEdits' # nEdits =>
          deleted' = deleted /\ strikes' = strikes /\ banned' = banned]_vars

\* the result frames the worker has taken from out_rx so far
ResultsTaken ==
    child.results - Cardinality({i \in DOMAIN out_rx : out_rx[i].type = "result"})

\* C35: with a child that keeps to the wire protocol, every write to the
\* child's stdin after the seed is one WorkerMessage taken from the engine's
\* channel, it happens only when a result frame has been taken for every
\* input frame written before, the Response the worker builds comes from a
\* result frame the child wrote after the last input frame, and the call
\* that takes it is the one whose message that input frame carries.
C35_OneInputOneResult ==
    /\ [][stdin' # stdin /\ stdin # <<>> =>
             /\ msg_rx # <<>>
             /\ stdin' = Append(stdin, Head(msg_rx)) /\ msg_rx' = Tail(msg_rx)
             /\ ResultsTaken = Len(stdin)]_vars
    /\ [][resp_rx' # resp_rx /\ Len(resp_rx') > Len(resp_rx) =>
             /\ Head(out_rx).type = "result"
             /\ Head(out_rx).after = Len(stdin)
             /\ ResultsTaken = Len(stdin) - 1
             /\ resp_rx' = Append(resp_rx, [input |-> Len(stdin),
                                            compacted |-> worker.compacted])]_vars
    /\ [][Len(caller'.got) > Len(caller.got) =>
             /\ Last(caller'.got).input = Len(stdin)
             /\ msg_rx = <<>> /\ Len(stdin) = caller.done + 2]_vars

\* two calls were answered, each by the result frame of its own turn, with
\* other frames in between
C35_Witness ==
    /\ Len(caller.got) = 2 /\ Len(stdin) = 3
    /\ child.emitted > child.results + 1
    /\ caller.got[1].input = 2 /\ caller.got[2].input = 3

NextRecent ==
    \E rows \in SeqsUpTo(RowLens, MaxRows), max_tokens \in Budgets :
       GetRecent(rows, max_tokens)

SpecRecent == Init /\ [][NextRecent]_vars

RECURSIVE SumOf(_, _)
SumOf(rows, places) ==
    IF places = <<>> THEN 0 ELSE rows[Head(places)] + SumOf(rows, Tail(places))

\* the places are those of the k newest rows, oldest first
NewestRun(rows, places) ==
    \A j \in DOMAIN places : places[j] = Len(rows) - Len(places) + j

C36_WitnessOverBudget ==
    /\ Len(recentCall.result) = 1
    /\ SumOf(recentCall.rows, recentCall.result) > recentCall.max_tokens * 4

\* the texts the prefilter leaves to the classifier
AmbiguousTexts == {text \in Texts : prefilter(text) = "Ambiguous"}

\* group messages the prefilter cannot settle arrive while every classifier
\* call fails, and go through handle_message up to the flush
NextClassifierDown ==
    \/ \E u \in Users, text \in AmbiguousTexts : ArriveGroup(u, text, "Err")
    \/ \E h \in handlers : HM_Context(h)
    \/ \E h \in handlers : HM_Archive(h)
    \/ \E h \in handlers : HM_Pending(h)
    \/ \E h \in handlers : HM_Trigger(h)
    \/ DebRecv
    \/ Tick
    \/ DebFire
    \/ \E t \in TaskIds : T_Take(t)

SpecClassifierDown == Init /\ [][NextClassifierDown]_vars

\* a group message of a user who is not an owner whose text the prefilter
\* cannot settle, handled while classify returns Err
AmbiguousWithFailedClassifier(user, text) ==
    /\ ~is_owner(user) /\ text.hasText /\ prefilter(text) = "Ambiguous"
    /\ ArriveGroup(user, text, "Err")

\* C37: when classify fails for an ambiguous group message, the message is
\* not deleted, no strike is added, nobody is banned, and the message is
\* handed to chatbot.handle_message.
C37_ClassifierErrorIsNotSpam ==
    [][\A user \in Users, text \in Texts :
          AmbiguousWithFailedClassifier(user, text) =>
             LET m == Msg(GroupChat, lastMsgId'[GroupChat], user)
             IN  /\ deleted' = deleted
                 /\ strikes' = strikes
                 /\ banned' = banned
                 /\ [msg |-> m, pc |-> "ctx"] \in handlers']_vars

\* an ambiguous message of a stranger was handed over and reached the
\* Pending Batch without a delete or a strike
C37_Witness ==
    /\ \E i \in DOMAIN pending :
          pending[i].chat_id = GroupChat /\ pending[i].user_id = StrangerId
    /\ deleted = {} /\ strikes[StrangerId] = 0

\* a step in which a send_message intent is executed and succeeds
SendMessageSucceeds ==
    /\ \E t \in TaskIds : tasks[t].pc = "exec" /\ T_Exec(t, Succeeds)
    /\ response.calls[toolIdx].tool = "send_message"
    /\ sentCount' = sentCount + 1

\* the messages of the bot in a list of messages
OfBot(msgs) == {i \in DOMAIN msgs : msgs[i].user_id = BotUserId}

\* C38: a message the bot sends through send_message is stored in the
\* Archive and in the Context Buffer, is not appended to the Pending Batch
\* and does not trigger the debouncer, so no message of the bot is ever
\* pending or in the batch of a turn.
C38_OwnOutputStartsNoTurn ==
    /\ [][SendMessageSucceeds =>
                LET c == response.calls[toolIdx].chat_id
                    m == Msg(c, lastMsgId'[c], BotUserId)
                IN  /\ lastMsgId'[c] = lastMsgId[c] + 1
                    /\ Len(ctxMessages') > 0
                    /\ ctxMessages'[Len(ctxMessages')] = m
                    /\ m.message_id \in DOMAIN dbMessages'
                    /\ dbMessages'[m.message_id] = m
                    /\ pending' = pending
                    /\ resetChan' = resetChan]_vars
    /\ [](OfBot(pending) = {})
    /\ [](\A t \in TaskIds : OfBot(tasks[t].batch) = {})

\* the bot's message is in the Context Buffer while its turn is still on
\* and nothing is pending
C38_Witness ==
    /\ OfBot(ctxMessages) # {}
    /\ pending = <<>> /\ resetChan = 0
    /\ \E t \in TaskIds : tasks[t].pc \notin {"idle", "done"}

\* the trust tools of this turn that named u and succeeded
TrustOps(u) ==
    {i \in 1..Len(results) :
        /\ response.calls[i].tool \in {"add_trusted_user", "remove_trusted_user"}
        /\ response.calls[i].user_id = u
        /\ ~results[i].is_error}

\* the last trust tool that succeeded for u was this one
LastSucceeded(u, tool) ==
    /\ TrustOps(u) # {}
    /\ LET i == CHOOSE k \in TrustOps(u) : \A j \in TrustOps(u) : j <= k
       IN  response.calls[i].tool = tool

\* a trust tool that names u removed or inserted u and waits for its save
InFlight(u) == rollback.op # "none" /\ rollback.user_id = u

\* the DM of u that is handled in this step reaches chatbot.handle_message
Accepted(u) ==
    [msg |-> Msg(u, lastMsgId'[u], u), pc |-> "ctx"] \in handlers' \ handlers

C39_WitnessRemoved ==
    /\ LastSucceeded(StrangerId, "remove_trusted_user")
    /\ StrangerId \in dmDenied

\* the scan loop on any signals.json: a scan is due again and again, and a
\* save can fail
InitScan ==
    /\ InitEngine /\ InitDebouncer /\ InitDebObs /\ InitTrust /\ InitReminders
    /\ InitMemory /\ queryResult = NoQuery /\ InitWorker
    /\ ctxText = <<>> /\ nEdits = 0 /\ dropped = FALSE /\ recentCall = NoRecent
    /\ scanStore \in Stores /\ scanMsg = NoScan

NextScan == \E saved \in BOOLEAN : generate_scan_message(saved)

SpecScanFair ==
    InitScan /\ [][NextScan]_vars /\ WF_vars(generate_scan_message(TRUE))

\* C40: for every topic of the configured list, again and again a scan
\* message has that topic as its focus topic, at least when the saves of
\* the store succeed from some scan on. With a list of five topics (the
\* initial list) the message in Discover mode always has the same topic.
C40_EveryTopicPresented ==
    (<>[](scanMsg.saved)) =>
       \A n \in 1..MaxTopics : \A topic \in 0..(n - 1) :
          [](scanStore.focus_topics = n => <>(scanMsg.focus = topic))

\* the same for the lists whose length is not a multiple of the five modes
C40_RotatesUnlessMultipleOfFive ==
    (<>[](scanMsg.saved)) =>
       \A n \in 1..MaxTopics : \A topic \in 0..(n - 1) :
          [](scanStore.focus_topics = n /\ n % 5 # 0 => <>(scanMsg.focus = topic))

====
